---- MODULE Spec2Model ----
(***************************************************************************)
(* Model of the live assessment engine of the USGS flow percentile monitor *)
(* (src/src/pipeline_b/percentile_calc.py, src/src/utils/config.py), of    *)
(* its trend detector (src/src/pipeline_b/trend_detector.py) and of its    *)
(* reference loader (src/src/pipeline_b/reference_loader.py,               *)
(* src/src/utils/s3_client.py).                                            *)
(*                                                                         *)
(* Conventions                                                             *)
(*  - An optional number (Python None / pandas NaN) is a sequence: <<>> is *)
(*    None/NaN and <<v>> is the number v.                                  *)
(*  - An optional label is a string, the string "None" standing for None.  *)
(*  - A float computed by interpolation is an exact rational <<n, d>>,     *)
(*    d > 0, compared by cross multiplication.  The absent result of       *)
(*    interpolate_percentile is <<>>.                                      *)
(*  - A pandas Series is a function from its index labels to values; a     *)
(*    label that is not in the index is not in the DOMAIN.                 *)
(***************************************************************************)
EXTENDS Integers, Sequences, FiniteSets, TLC

VARIABLES
    pc,                     \* position of the modelled call
    current_flow,           \* interpolate_percentile: argument current_flow
    percentile_thresholds,  \* interpolate_percentile: argument (a Series)
    interp_result,          \* interpolate_percentile: returned value
    percentile,             \* get_flow_status / get_drought_status: argument
    flow_status,            \* get_flow_status: returned label
    drought_status,         \* get_drought_status: returned label or "None"
    gage_height,            \* get_flood_status: argument gage_height
    flood_thresholds,       \* get_flood_status: argument (optional Series)
    flood_status,           \* get_flood_status: returned label or "None"
    current_df,             \* calculate_live_percentiles: current readings
    reference_df,           \* calculate_live_percentiles: reference rows
    flood_thresholds_df,    \* calculate_live_percentiles: optional flood rows
    month_day,              \* calculate_live_percentiles: argument or "None"
    today,                  \* datetime.now().strftime("%m-%d")
    trends,                 \* calculate_live_percentiles: site -> TrendResult
    temp_trends,            \* calculate_live_percentiles: site -> TrendResult
    results,                \* calculate_live_percentiles: returned records
    flow_history,           \* calculate_trend: argument, (time, flow) pairs
    thr_rising,             \* calculate_trend: argument rising_threshold
    thr_falling,            \* calculate_trend: argument falling_threshold
    min_data_points,        \* calculate_trend: argument min_data_points
    trend_result,           \* calculate_trend: TrendResult or raised error
    reference_cache,        \* reference_loader._reference_cache
    local_reference_dir,    \* reference_loader._local_reference_dir or "None"
    s3_objects,             \* the reference objects of the S3 bucket
    s3_fault,               \* what an S3 request fails with, or "None"
    fetches,                \* region -> reads of the store so far
    inserts,                \* region -> entries put into the cache so far
    last_call,              \* the last operation on the loader and its outcome
    wpc,                    \* worker -> position in load_reference_data
    w_state_code,           \* worker -> argument state_code
    w_df,                   \* worker -> local variable df
    states,                 \* run_live_monitor: argument states
    latest_df,              \* run_live_monitor: latest readings, or None
    temp_readings,          \* get_temp_readings_for_trends: site -> history
    monitor_result,         \* run_live_monitor: returned table or raised error
    station_index,          \* the station items of the DynamoDB index, in order
    limit_per_page,         \* fetch_all_stations_from_dynamodb: argument
    all_stations,           \* fetch_all_stations_from_dynamodb: all_stations
    cursor,                 \* fetch_all_stations_from_dynamodb: cursor or None
    active_stations,        \* page: the stations taken so far
    exclusive_start_key,    \* page: where the next query starts, or None
    has_more_data,          \* page: the last query left items behind
    last_station_key,       \* page: key of the last station taken, or None
    query_failed            \* a query of the run has failed

interpVars == <<current_flow, percentile_thresholds, interp_result>>

classVars == <<percentile, flow_status, drought_status>>

floodVars == <<gage_height, flood_thresholds, flood_status>>

engineVars == <<current_df, reference_df, flood_thresholds_df, month_day,
                today, trends, temp_trends, results>>

trendVars == <<flow_history, thr_rising, thr_falling, min_data_points, trend_result>>

cacheVars == <<reference_cache, local_reference_dir, s3_objects, s3_fault,
               fetches, inserts, last_call>>

workerVars == <<wpc, w_state_code, w_df>>

monitorVars == <<states, latest_df, temp_readings, monitor_result>>

stationVars == <<station_index, limit_per_page, all_stations, cursor,
                 active_stations, exclusive_start_key, has_more_data,
                 last_station_key, query_failed>>

\* the components around the engine
supportVars == <<trendVars, cacheVars, workerVars, monitorVars, stationVars>>

vars == <<pc, interpVars, classVars, floodVars, engineVars, supportVars>>

---------------------------------------------------------------------------
(* Bounds of the model *)

\* threshold values of a reference row are 0, TStep, ..., MaxLevel * TStep
TStep == 3
MaxLevel == 2

\* percentiles given to the classifiers are n / d, d in 1..MaxDen
MaxDen == 2

\* stages and gage heights of the small flood rows are 0..MaxStage half feet
MaxStage == 2

\* readings in a batch and rows in a reference table
MaxReadings == 2
MaxRefRows == 1

\* the histories classified under drawn thresholds have this many readings
ThresholdSeriesLen == 4

\* flow histories in time order have up to MaxSeriesLen readings, the
\* histories in any order up to MaxAnyOrderLen
MaxSeriesLen == 4
MaxAnyOrderLen == 2

\* the store is read and the cache filled at most MaxFetches times a region
MaxFetches == 2

\* concurrent callers of load_reference_data
NumWorkers == 2

\* run_live_monitor is given up to MaxStates state codes
MaxStates == 2

\* the station index has up to MaxIndexLen items, the page limit is up to
\* MaxLimit
MaxIndexLen == 3
MaxLimit == 2

---------------------------------------------------------------------------
(* Optional values and rationals *)

NA == <<>>

Some(v) == <<v>>

notna(x) == x # NA

Rat(n) == <<n, 1>>

RatLe(a, b) == a[1] * b[2] <= b[1] * a[2]

RatLt(a, b) == a[1] * b[2] < b[1] * a[2]

RatEq(a, b) == a[1] * b[2] = b[1] * a[2]

---------------------------------------------------------------------------
(* config.usgs.percentiles and the column names derived from it *)

percentiles == <<5, 10, 25, 50, 75, 90, 95>>

\* f"p{p:02d}"
PCol(p) == IF p < 10 THEN "p0" \o ToString(p) ELSE "p" \o ToString(p)

percentile_cols == [i \in 1..Len(percentiles) |-> PCol(percentiles[i])]

\* the column names the reference statistics are stored under
StoredCols == {"p05", "p10", "p25", "p50", "p75", "p90", "p95"}

---------------------------------------------------------------------------
(* numpy.interp(x, xp, fp) for one x, xp non-decreasing *)

\* index j of the last knot with xp[j] <= x (x >= xp[1])
LastKnotLe(x, xp) ==
    CHOOSE j \in 1..Len(xp) :
        /\ xp[j] <= x
        /\ \A k \in (j + 1)..Len(xp) : xp[k] > x

\* faulty variant: the interpolation weight is taken from the right knot
np_interp_swapped(x, xp, fp) ==
    IF x > xp[Len(xp)] THEN Rat(fp[Len(fp)])
    ELSE IF x < xp[1] THEN Rat(fp[1])
    ELSE LET j == LastKnotLe(x, xp) IN
         IF j = Len(xp) THEN Rat(fp[j])
         ELSE IF xp[j] = x THEN Rat(fp[j])
         ELSE <<fp[j] * (xp[j + 1] - xp[j]) + (fp[j + 1] - fp[j]) * (xp[j + 1] - x),
                xp[j + 1] - xp[j]>>

np_interp(x, xp, fp) ==
    IF x > xp[Len(xp)] THEN Rat(fp[Len(fp)])
    ELSE IF x < xp[1] THEN Rat(fp[1])
    ELSE LET j == LastKnotLe(x, xp) IN
         IF j = Len(xp) THEN Rat(fp[j])
         ELSE IF xp[j] = x THEN Rat(fp[j])
         ELSE <<fp[j] * (xp[j + 1] - xp[j]) + (fp[j + 1] - fp[j]) * (x - xp[j]),
                xp[j + 1] - xp[j]>>

---------------------------------------------------------------------------
(* interpolate_percentile *)

\* positions of config percentiles whose column is in the Series and not NaN
ValidPositions(row) ==
    SelectSeq([i \in 1..Len(percentiles) |-> i],
              LAMBDA i : /\ percentile_cols[i] \in DOMAIN row
                         /\ notna(row[percentile_cols[i]]))

\* faulty variant: a single populated threshold is accepted
interpolate_percentile_min1(flow, row) ==
    LET pos == ValidPositions(row)
        thresholds == [k \in 1..Len(pos) |-> row[percentile_cols[pos[k]]][1]]
        valid_percentiles == [k \in 1..Len(pos) |-> percentiles[pos[k]]]
    IN  IF Len(thresholds) < 1 THEN NA
        ELSE IF flow <= thresholds[1] THEN Rat(valid_percentiles[1])
        ELSE IF flow >= thresholds[Len(thresholds)]
             THEN Rat(valid_percentiles[Len(valid_percentiles)])
        ELSE np_interp(flow, thresholds, valid_percentiles)

\* faulty variant: the lower clamp is strict
interpolate_percentile_strict(flow, row) ==
    LET pos == ValidPositions(row)
        thresholds == [k \in 1..Len(pos) |-> row[percentile_cols[pos[k]]][1]]
        valid_percentiles == [k \in 1..Len(pos) |-> percentiles[pos[k]]]
    IN  IF Len(thresholds) < 2 THEN NA
        ELSE IF flow < thresholds[1] THEN Rat(valid_percentiles[1])
        ELSE IF flow >= thresholds[Len(thresholds)]
             THEN Rat(valid_percentiles[Len(valid_percentiles)])
        ELSE np_interp(flow, thresholds, valid_percentiles)

\* faulty variant: the upper clamp returns the threshold instead of its percentile
interpolate_percentile_upval(flow, row) ==
    LET pos == ValidPositions(row)
        thresholds == [k \in 1..Len(pos) |-> row[percentile_cols[pos[k]]][1]]
        valid_percentiles == [k \in 1..Len(pos) |-> percentiles[pos[k]]]
    IN  IF Len(thresholds) < 2 THEN NA
        ELSE IF flow <= thresholds[1] THEN Rat(valid_percentiles[1])
        ELSE IF flow >= thresholds[Len(thresholds)]
             THEN Rat(thresholds[Len(thresholds)])
        ELSE np_interp(flow, thresholds, valid_percentiles)

interpolate_percentile(flow, row) ==
    LET pos == ValidPositions(row)
        thresholds == [k \in 1..Len(pos) |-> row[percentile_cols[pos[k]]][1]]
        valid_percentiles == [k \in 1..Len(pos) |-> percentiles[pos[k]]]
    IN  IF Len(thresholds) < 2 THEN NA
        ELSE IF flow <= thresholds[1] THEN Rat(valid_percentiles[1])
        ELSE IF flow >= thresholds[Len(thresholds)]
             THEN Rat(valid_percentiles[Len(valid_percentiles)])
        ELSE np_interp(flow, thresholds, valid_percentiles)

---------------------------------------------------------------------------
(* get_flow_status *)

NoneStr == "None"

\* faulty variant: the Below Normal band stops at 20
\* faulty variant: Much Below Normal reaches up to the 10th percentile
get_flow_status_mb10(p) ==
    IF RatLt(p, Rat(10)) THEN "Much Below Normal"
    ELSE IF RatLt(p, Rat(10)) THEN "Below Normal"
    ELSE IF RatLt(p, Rat(25)) THEN "Below Normal"
    ELSE IF RatLt(p, Rat(75)) THEN "Normal"
    ELSE IF RatLt(p, Rat(90)) THEN "Above Normal"
    ELSE IF RatLt(p, Rat(95)) THEN "Above Normal"
    ELSE "Much Above Normal"

get_flow_status_b20(p) ==
    IF RatLt(p, Rat(5)) THEN "Much Below Normal"
    ELSE IF RatLt(p, Rat(10)) THEN "Below Normal"
    ELSE IF RatLt(p, Rat(20)) THEN "Below Normal"
    ELSE IF RatLt(p, Rat(75)) THEN "Normal"
    ELSE IF RatLt(p, Rat(90)) THEN "Above Normal"
    ELSE IF RatLt(p, Rat(95)) THEN "Above Normal"
    ELSE "Much Above Normal"

get_flow_status(p) ==
    IF RatLt(p, Rat(5)) THEN "Much Below Normal"
    ELSE IF RatLt(p, Rat(10)) THEN "Below Normal"
    ELSE IF RatLt(p, Rat(25)) THEN "Below Normal"
    ELSE IF RatLt(p, Rat(75)) THEN "Normal"
    ELSE IF RatLt(p, Rat(90)) THEN "Above Normal"
    ELSE IF RatLt(p, Rat(95)) THEN "Above Normal"
    ELSE "Much Above Normal"

---------------------------------------------------------------------------
(* config.drought and get_drought_status *)

d0_threshold == 30
d1_threshold == 20
d2_threshold == 10
d3_threshold == 5
d4_threshold == 2

\* faulty variant: the tiers are tested least severe first
get_drought_status_d0first(p) ==
    IF RatLt(p, Rat(d0_threshold)) THEN "D0 - Abnormally Dry"
    ELSE IF RatLt(p, Rat(d1_threshold)) THEN "D1 - Moderate Drought"
    ELSE IF RatLt(p, Rat(d2_threshold)) THEN "D2 - Severe Drought"
    ELSE IF RatLt(p, Rat(d3_threshold)) THEN "D3 - Extreme Drought"
    ELSE IF RatLt(p, Rat(d4_threshold)) THEN "D4 - Exceptional Drought"
    ELSE NoneStr

\* faulty variant: the D3 test compares with the D2 cutoff
get_drought_status_d3cut(p) ==
    IF RatLt(p, Rat(d4_threshold)) THEN "D4 - Exceptional Drought"
    ELSE IF RatLt(p, Rat(d2_threshold)) THEN "D3 - Extreme Drought"
    ELSE IF RatLt(p, Rat(d2_threshold)) THEN "D2 - Severe Drought"
    ELSE IF RatLt(p, Rat(d1_threshold)) THEN "D1 - Moderate Drought"
    ELSE IF RatLt(p, Rat(d0_threshold)) THEN "D0 - Abnormally Dry"
    ELSE NoneStr

get_drought_status(p) ==
    IF RatLt(p, Rat(d4_threshold)) THEN "D4 - Exceptional Drought"
    ELSE IF RatLt(p, Rat(d3_threshold)) THEN "D3 - Extreme Drought"
    ELSE IF RatLt(p, Rat(d2_threshold)) THEN "D2 - Severe Drought"
    ELSE IF RatLt(p, Rat(d1_threshold)) THEN "D1 - Moderate Drought"
    ELSE IF RatLt(p, Rat(d0_threshold)) THEN "D0 - Abnormally Dry"
    ELSE NoneStr

---------------------------------------------------------------------------
(* get_flood_status: heights and stages are in half feet *)

\* Series.get(key): None when the key is not in the index
SeriesGet(series, key) == IF key \in DOMAIN series THEN series[key] ELSE NA

\* is not None and not pd.isna(stage) and gage_height >= stage
StageReached(gage, stage) == notna(stage) /\ gage[1] >= stage[1]

\* faulty variant: the stages are tested least severe first
get_flood_status_actionfirst(gage, ft) ==
    IF ~notna(gage) THEN NoneStr
    ELSE IF ft = NA \/ DOMAIN ft[1] = {} THEN NoneStr
    ELSE IF StageReached(gage, SeriesGet(ft[1], "action_stage"))
         THEN "Action Stage"
    ELSE IF StageReached(gage, SeriesGet(ft[1], "flood_stage"))
         THEN "Minor Flood"
    ELSE IF StageReached(gage, SeriesGet(ft[1], "moderate_flood_stage"))
         THEN "Moderate Flood"
    ELSE IF StageReached(gage, SeriesGet(ft[1], "major_flood_stage"))
         THEN "Major Flood"
    ELSE NoneStr

\* faulty variant: a row without a major stage is given up on
get_flood_status_needmajor(gage, ft) ==
    IF ~notna(gage) THEN NoneStr
    ELSE IF ft = NA \/ DOMAIN ft[1] = {} THEN NoneStr
    ELSE IF ~notna(SeriesGet(ft[1], "major_flood_stage")) THEN NoneStr
    ELSE IF StageReached(gage, SeriesGet(ft[1], "major_flood_stage"))
         THEN "Major Flood"
    ELSE IF StageReached(gage, SeriesGet(ft[1], "moderate_flood_stage"))
         THEN "Moderate Flood"
    ELSE IF StageReached(gage, SeriesGet(ft[1], "flood_stage"))
         THEN "Minor Flood"
    ELSE IF StageReached(gage, SeriesGet(ft[1], "action_stage"))
         THEN "Action Stage"
    ELSE NoneStr

get_flood_status(gage, ft) ==
    IF ~notna(gage) THEN NoneStr
    ELSE IF ft = NA \/ DOMAIN ft[1] = {} THEN NoneStr
    ELSE IF StageReached(gage, SeriesGet(ft[1], "major_flood_stage"))
         THEN "Major Flood"
    ELSE IF StageReached(gage, SeriesGet(ft[1], "moderate_flood_stage"))
         THEN "Moderate Flood"
    ELSE IF StageReached(gage, SeriesGet(ft[1], "flood_stage"))
         THEN "Minor Flood"
    ELSE IF StageReached(gage, SeriesGet(ft[1], "action_stage"))
         THEN "Action Stage"
    ELSE NoneStr

---------------------------------------------------------------------------
(* Inputs of interpolate_percentile *)

ThresholdVals == {TStep * l : l \in 0..MaxLevel}

FlowVals == 0..(TStep * MaxLevel + 1)

\* populated thresholds are non-decreasing in the percentile (they are
\* percentiles of one sample, computed by calculate_site_percentiles)
Monotone(row) ==
    \A i, j \in 1..Len(percentiles) :
        (/\ i < j
         /\ percentile_cols[i] \in DOMAIN row
         /\ percentile_cols[j] \in DOMAIN row
         /\ notna(row[percentile_cols[i]])
         /\ notna(row[percentile_cols[j]]))
        => row[percentile_cols[i]][1] <= row[percentile_cols[j]][1]

\* a row of a reference table has every stored column, some of them NaN;
\* a Series built by hand may lack columns
ThresholdRows ==
    {row \in [StoredCols -> {NA} \cup {Some(v) : v \in ThresholdVals}]
                \cup UNION {[S -> {Some(v) : v \in ThresholdVals}] :
                                S \in SUBSET StoredCols} : Monotone(row)}

---------------------------------------------------------------------------
(* Specification of the interpolator: one call on a drawn row and flow *)

\* the variables of a component that a specification does not exercise
InterpIdle ==
    /\ current_flow = 0
    /\ percentile_thresholds = <<>>
    /\ interp_result = NA

ClassifyIdle ==
    /\ percentile = Rat(0)
    /\ flow_status = NoneStr
    /\ drought_status = NoneStr

FloodIdle ==
    /\ gage_height = NA
    /\ flood_thresholds = NA
    /\ flood_status = NoneStr

EngineIdle ==
    /\ current_df = <<>>
    /\ reference_df = <<>>
    /\ flood_thresholds_df = NA
    /\ month_day = NoneStr
    /\ today = "01-15"
    /\ trends = <<>>
    /\ temp_trends = <<>>
    /\ results = <<>>

\* a returned TrendResult; raised is the exception a call ends with
TrendResult(trend, rate, hsp, n) ==
    [raised |-> NoneStr, trend |-> trend, trend_rate |-> rate,
     hours_since_peak |-> hsp, data_points |-> n]

\* a call that ends with an exception returns nothing
TrendRaised(exc) ==
    [raised |-> exc, trend |-> NoneStr, trend_rate |-> NA,
     hours_since_peak |-> NA, data_points |-> 0]

\* before the call returns
NoTrendResult == TrendResult(NoneStr, NA, NA, 0)

\* TrendConfig / the defaults of calculate_trend
rising_threshold == 5
falling_threshold == -5

TrendIdle ==
    /\ flow_history = <<>>
    /\ thr_rising = rising_threshold
    /\ thr_falling = falling_threshold
    /\ min_data_points = 4
    /\ trend_result = NoTrendResult

\* the state codes of the model and the site each one's table describes
Regions == {"VT", "NH"}

SiteOf == [r \in Regions |-> IF r = "VT" THEN "s1" ELSE "s2"]

\* the record of an operation on the loader: what was called and how it ended
Call(op, state_code, use_cache, df, raised, fetched) ==
    [op |-> op, state_code |-> state_code, use_cache |-> use_cache,
     df |-> df, raised |-> raised, fetched |-> fetched]

NoCall == Call(NoneStr, NoneStr, FALSE, NA, NoneStr, FALSE)

\* what run_live_monitor ends with: the combined records or an exception
MonitorResult(raised, combined) == [raised |-> raised, results |-> combined]

NoMonitorResult == MonitorResult(NoneStr, <<>>)

\* the module state of reference_loader after import, an empty bucket
CacheIdle ==
    /\ reference_cache = <<>>
    /\ local_reference_dir = NoneStr
    /\ s3_objects = [r \in Regions |-> NA]
    /\ s3_fault = NoneStr
    /\ fetches = [r \in Regions |-> 0]
    /\ inserts = [r \in Regions |-> 0]
    /\ last_call = NoCall

WorkersIdle ==
    /\ wpc = [w \in 1..NumWorkers |-> "idle"]
    /\ w_state_code = [w \in 1..NumWorkers |-> NoneStr]
    /\ w_df = [w \in 1..NumWorkers |-> NA]

MonitorIdle ==
    /\ states = <<>>
    /\ latest_df = NA
    /\ temp_readings = <<>>
    /\ monitor_result = NoMonitorResult

StationsIdle ==
    /\ station_index = <<>>
    /\ limit_per_page = 100
    /\ all_stations = <<>>
    /\ cursor = NA
    /\ active_stations = <<>>
    /\ exclusive_start_key = NA
    /\ has_more_data = TRUE
    /\ last_station_key = NA
    /\ query_failed = FALSE

SupportIdle ==
    TrendIdle /\ CacheIdle /\ WorkersIdle /\ MonitorIdle /\ StationsIdle

InitInterp ==
    /\ pc = "interp_call"
    /\ current_flow \in FlowVals
    /\ percentile_thresholds \in ThresholdRows
    /\ interp_result = NA
    /\ ClassifyIdle
    /\ FloodIdle
    /\ EngineIdle
    /\ SupportIdle

InterpolatePercentile ==
    /\ pc = "interp_call"
    /\ interp_result' = interpolate_percentile(current_flow, percentile_thresholds)
    /\ pc' = "interp_return"
    /\ UNCHANGED <<current_flow, percentile_thresholds, classVars, floodVars,
                   engineVars,
                   supportVars>>

NextInterp == InterpolatePercentile

SpecInterp == InitInterp /\ [][NextInterp]_vars

---------------------------------------------------------------------------
(* Specification of the percentile classifiers *)

\* the percentiles n / d of 0..100
PercentileVals ==
    {q \in (0..(100 * MaxDen)) \X (1..MaxDen) : q[1] <= 100 * q[2]}

InitClassify ==
    /\ pc = "classify_call"
    /\ percentile \in PercentileVals
    /\ flow_status = NoneStr
    /\ drought_status = NoneStr
    /\ InterpIdle
    /\ FloodIdle
    /\ EngineIdle
    /\ SupportIdle

GetFlowStatus ==
    /\ pc = "classify_call"
    /\ flow_status' = get_flow_status(percentile)
    /\ pc' = "flow_status_return"
    /\ UNCHANGED <<percentile, drought_status, interpVars, floodVars, engineVars,
                   supportVars>>

GetDroughtStatus ==
    /\ pc = "classify_call"
    /\ drought_status' = get_drought_status(percentile)
    /\ pc' = "drought_status_return"
    /\ UNCHANGED <<percentile, flow_status, interpVars, floodVars, engineVars,
                   supportVars>>

NextClassify == GetFlowStatus \/ GetDroughtStatus

SpecClassify == InitClassify /\ [][NextClassify]_vars

---------------------------------------------------------------------------
(* Specification of the flood classifier *)

StageKeys ==
    {"action_stage", "flood_stage", "moderate_flood_stage", "major_flood_stage"}

\* any subset of the stages, each None/NaN or a value, in any order
SmallFloodRows ==
    UNION {[S -> {NA} \cup {Some(v) : v \in 0..MaxStage}] :
              S \in SUBSET StageKeys}

\* mock_thresholds of test_step_3_flood_status: 8, 10, 14, 18 ft
mock_thresholds ==
    [action_stage |-> Some(16), flood_stage |-> Some(20),
     moderate_flood_stage |-> Some(28), major_flood_stage |-> Some(36)]

\* test_heights of test_step_3_flood_status: 5, 8.5, 11, 15, 20 ft, None
test_heights == {Some(10), Some(17), Some(22), Some(30), Some(40), NA}

InitFlood ==
    /\ pc = "flood_call"
    /\ \/ /\ gage_height \in {NA} \cup {Some(v) : v \in 0..(MaxStage + 1)}
          /\ flood_thresholds \in {NA} \cup {Some(r) : r \in SmallFloodRows}
       \/ /\ gage_height \in test_heights
          /\ flood_thresholds = Some(mock_thresholds)
    /\ flood_status = NoneStr
    /\ InterpIdle
    /\ ClassifyIdle
    /\ EngineIdle
    /\ SupportIdle

GetFloodStatus ==
    /\ pc = "flood_call"
    /\ flood_status' = get_flood_status(gage_height, flood_thresholds)
    /\ pc' = "flood_status_return"
    /\ UNCHANGED <<gage_height, flood_thresholds, interpVars, classVars,
                   engineVars,
                   supportVars>>

NextFlood == GetFloodStatus

SpecFlood == InitFlood /\ [][NextFlood]_vars

---------------------------------------------------------------------------
(* calculate_live_percentiles *)

\* round(percentile, 1): the nearest tenth, an exact tie going to the even
\* tenth; the result is a rational over 10
Round1(q) ==
    LET fl == (10 * q[1]) \div q[2]
        rem == (10 * q[1]) % q[2]
    IN  IF 2 * rem < q[2] THEN <<fl, 10>>
        ELSE IF 2 * rem > q[2] THEN <<fl + 1, 10>>
        ELSE IF fl % 2 = 0 THEN <<fl, 10>>
        ELSE <<fl + 1, 10>>

\* month_day defaults to today's key
EffectiveDay(md, now) == IF md = NoneStr THEN now ELSE md

\* flood rows indexed by str(site_id), rows with an empty id left out, the
\* last row of an id winning
FloodLookup(df) ==
    IF df = NA THEN <<>>
    ELSE LET rows == df[1]
             ids == {rows[i].site_id : i \in 1..Len(rows)} \ {""}
         IN  [s \in ids |->
                 rows[CHOOSE i \in 1..Len(rows) :
                        /\ rows[i].site_id = s
                        /\ \A k \in (i + 1)..Len(rows) : rows[k].site_id # s]]

\* reference_df[(site_id == site) & (month_day == day)]
SiteRef(ref, site, day) ==
    SelectSeq(ref, LAMBDA r : r.site_id = site /\ r.month_day = day)

\* faulty variant: the flood stage is only looked at once a percentile is set
AssessReading_floodafterpct(row, ref, lookup, day, tr, ttr) ==
    LET site == row.site_no
        initial ==
            [site_id |-> site,
             flow |-> row.discharge,
             gage_height |-> row.gage_height,
             water_temp |-> row.water_temp,
             percentile |-> NA,
             flow_status |-> NoneStr,
             drought_status |-> NoneStr,
             flood_status |-> NoneStr,
             trend |-> IF site \in DOMAIN tr THEN tr[site].trend ELSE NoneStr,
             trend_rate |-> IF site \in DOMAIN tr
                            THEN Some(tr[site].trend_rate) ELSE NA,
             hours_since_peak |-> IF site \in DOMAIN tr
                                  THEN tr[site].hours_since_peak ELSE NA,
             water_temp_trend |-> IF site \in DOMAIN ttr
                                  THEN ttr[site].trend ELSE NoneStr]
        site_ref == IF notna(row.discharge)
                    THEN SiteRef(ref, site, day) ELSE <<>>
        pct == IF Len(site_ref) > 0
               THEN interpolate_percentile(row.discharge[1], site_ref[1])
               ELSE NA
        with_pct == IF pct # NA
                    THEN [initial EXCEPT !.percentile = Round1(pct),
                                         !.flow_status = get_flow_status(pct),
                                         !.drought_status = get_drought_status(pct)]
                    ELSE initial
        flood == IF pct # NA /\ notna(row.gage_height) /\ site \in DOMAIN lookup
                 THEN get_flood_status(row.gage_height, Some(lookup[site]))
                 ELSE NoneStr
    IN  [with_pct EXCEPT !.flood_status = flood]

\* faulty variant: the flow status is left out of the percentile block
AssessReading_noflow(row, ref, lookup, day, tr, ttr) ==
    LET site == row.site_no
        initial ==
            [site_id |-> site,
             flow |-> row.discharge,
             gage_height |-> row.gage_height,
             water_temp |-> row.water_temp,
             percentile |-> NA,
             flow_status |-> NoneStr,
             drought_status |-> NoneStr,
             flood_status |-> NoneStr,
             trend |-> IF site \in DOMAIN tr THEN tr[site].trend ELSE NoneStr,
             trend_rate |-> IF site \in DOMAIN tr
                            THEN Some(tr[site].trend_rate) ELSE NA,
             hours_since_peak |-> IF site \in DOMAIN tr
                                  THEN tr[site].hours_since_peak ELSE NA,
             water_temp_trend |-> IF site \in DOMAIN ttr
                                  THEN ttr[site].trend ELSE NoneStr]
        site_ref == IF notna(row.discharge)
                    THEN SiteRef(ref, site, day) ELSE <<>>
        pct == IF Len(site_ref) > 0
               THEN interpolate_percentile(row.discharge[1], site_ref[1])
               ELSE NA
        with_pct == IF pct # NA
                    THEN [initial EXCEPT !.percentile = Round1(pct),
                                         !.drought_status = get_drought_status(pct)]
                    ELSE initial
        flood == IF notna(row.gage_height) /\ site \in DOMAIN lookup
                 THEN get_flood_status(row.gage_height, Some(lookup[site]))
                 ELSE NoneStr
    IN  [with_pct EXCEPT !.flood_status = flood]

\* faulty variant: the statuses are those of the rounded percentile
AssessReading_rounded(row, ref, lookup, day, tr, ttr) ==
    LET site == row.site_no
        initial ==
            [site_id |-> site,
             flow |-> row.discharge,
             gage_height |-> row.gage_height,
             water_temp |-> row.water_temp,
             percentile |-> NA,
             flow_status |-> NoneStr,
             drought_status |-> NoneStr,
             flood_status |-> NoneStr,
             trend |-> IF site \in DOMAIN tr THEN tr[site].trend ELSE NoneStr,
             trend_rate |-> IF site \in DOMAIN tr
                            THEN Some(tr[site].trend_rate) ELSE NA,
             hours_since_peak |-> IF site \in DOMAIN tr
                                  THEN tr[site].hours_since_peak ELSE NA,
             water_temp_trend |-> IF site \in DOMAIN ttr
                                  THEN ttr[site].trend ELSE NoneStr]
        site_ref == IF notna(row.discharge)
                    THEN SiteRef(ref, site, day) ELSE <<>>
        pct == IF Len(site_ref) > 0
               THEN interpolate_percentile(row.discharge[1], site_ref[1])
               ELSE NA
        with_pct == IF pct # NA
                    THEN [initial EXCEPT !.percentile = Round1(pct),
                                         !.flow_status = get_flow_status(Round1(pct)),
                                         !.drought_status =
                                             get_drought_status(Round1(pct))]
                    ELSE initial
        flood == IF notna(row.gage_height) /\ site \in DOMAIN lookup
                 THEN get_flood_status(row.gage_height, Some(lookup[site]))
                 ELSE NoneStr
    IN  [with_pct EXCEPT !.flood_status = flood]

\* the result dict of one reading, before the output filter
AssessReading(row, ref, lookup, day, tr, ttr) ==
    LET site == row.site_no
        initial ==
            [site_id |-> site,
             flow |-> row.discharge,
             gage_height |-> row.gage_height,
             water_temp |-> row.water_temp,
             percentile |-> NA,
             flow_status |-> NoneStr,
             drought_status |-> NoneStr,
             flood_status |-> NoneStr,
             trend |-> IF site \in DOMAIN tr THEN tr[site].trend ELSE NoneStr,
             trend_rate |-> IF site \in DOMAIN tr
                            THEN Some(tr[site].trend_rate) ELSE NA,
             hours_since_peak |-> IF site \in DOMAIN tr
                                  THEN tr[site].hours_since_peak ELSE NA,
             water_temp_trend |-> IF site \in DOMAIN ttr
                                  THEN ttr[site].trend ELSE NoneStr]
        site_ref == IF notna(row.discharge)
                    THEN SiteRef(ref, site, day) ELSE <<>>
        pct == IF Len(site_ref) > 0
               THEN interpolate_percentile(row.discharge[1], site_ref[1])
               ELSE NA
        with_pct == IF pct # NA
                    THEN [initial EXCEPT !.percentile = Round1(pct),
                                         !.flow_status = get_flow_status(pct),
                                         !.drought_status = get_drought_status(pct)]
                    ELSE initial
        flood == IF notna(row.gage_height) /\ site \in DOMAIN lookup
                 THEN get_flood_status(row.gage_height, Some(lookup[site]))
                 ELSE NoneStr
    IN  [with_pct EXCEPT !.flood_status = flood]

\* faulty variant: a record needs both a percentile and a flood status
Emitted_both(result) ==
    result.percentile # NA /\ result.flood_status # NoneStr

\* the output filter
Emitted(result) ==
    result.percentile # NA \/ result.flood_status # NoneStr

RECURSIVE AssessRows(_, _, _, _, _, _, _)
AssessRows(rows, acc, ref, lookup, day, tr, ttr) ==
    IF rows = <<>> THEN acc
    ELSE LET row == Head(rows)
             result == AssessReading(row, ref, lookup, day, tr, ttr)
         IN  IF row.site_no = NoneStr
             THEN AssessRows(Tail(rows), acc, ref, lookup, day, tr, ttr)
             ELSE IF Emitted(result)
             THEN AssessRows(Tail(rows), Append(acc, result), ref, lookup,
                             day, tr, ttr)
             ELSE AssessRows(Tail(rows), acc, ref, lookup, day, tr, ttr)

calculate_live_percentiles(cur, ref, flood_df, md, now, tr, ttr) ==
    AssessRows(cur, <<>>, ref, FloodLookup(flood_df), EffectiveDay(md, now),
               tr, ttr)

---------------------------------------------------------------------------
(* Specification of the engine: one call on a drawn batch *)

SiteIds == {"s1", "s2"}

DayKeys == {"01-15", "01-16"}

\* a curve that can be interpolated and one with a single populated column
CurveFull ==
    [c \in StoredCols |->
        CASE c = "p05" -> Some(0) [] c = "p10" -> Some(1)
          [] c = "p25" -> Some(2) [] c = "p50" -> Some(3)
          [] c = "p75" -> Some(4) [] c = "p90" -> Some(5)
          [] c = "p95" -> Some(6)]

CurveSparse == [c \in StoredCols |-> IF c = "p50" THEN Some(3) ELSE NA]

ReferenceRow(site, day, curve) ==
    [c \in StoredCols \cup {"site_id", "month_day"} |->
        IF c = "site_id" THEN site
        ELSE IF c = "month_day" THEN day
        ELSE curve[c]]

RefRowVals ==
    {ReferenceRow("s1", day, curve) :
        day \in DayKeys, curve \in {CurveFull, CurveSparse}}

RECURSIVE SeqsUpTo(_, _)
SeqsUpTo(S, n) ==
    IF n = 0 THEN {<<>>}
    ELSE LET shorter == SeqsUpTo(S, n - 1)
         IN  shorter \cup {Append(q, x) : q \in shorter, x \in S}

ReadingVals ==
    [site_no : SiteIds \cup {NoneStr},
     discharge : {NA, Some(2)},
     gage_height : {NA, Some(2)},
     water_temp : {NA}]

FloodRow(site, action) ==
    [site_id |-> site, action_stage |-> Some(action),
     flood_stage |-> Some(action + 2), moderate_flood_stage |-> NA,
     major_flood_stage |-> Some(action + 4)]

\* no table, an empty table, a row whose action stage the gage height 2
\* reaches, one it does not reach, and a row without a site id
FloodTables ==
    {NA, Some(<<>>), Some(<<FloodRow("s1", 1)>>), Some(<<FloodRow("s1", 3)>>),
     Some(<<FloodRow("", 1)>>)}

SampleTrend ==
    [trend |-> "rising", trend_rate |-> 2, hours_since_peak |-> NA,
     data_points |-> 4]

SampleTempTrend ==
    [trend |-> "falling", trend_rate |-> 1, hours_since_peak |-> Some(3),
     data_points |-> 4]

InitEngine ==
    /\ pc = "engine_call"
    /\ current_df \in SeqsUpTo(ReadingVals, MaxReadings)
    /\ reference_df \in SeqsUpTo(RefRowVals, MaxRefRows)
    /\ flood_thresholds_df \in FloodTables
    /\ \E d \in {<<NoneStr, "01-15">>, <<"01-15", "01-16">>} :
           month_day = d[1] /\ today = d[2]
    /\ trends \in {<<>>, [s \in {"s1"} |-> SampleTrend]}
    /\ temp_trends \in {<<>>, [s \in {"s1"} |-> SampleTempTrend]}
    /\ results = <<>>
    /\ InterpIdle
    /\ ClassifyIdle
    /\ FloodIdle
    /\ SupportIdle

CalculateLivePercentiles ==
    /\ pc = "engine_call"
    /\ results' = calculate_live_percentiles(current_df, reference_df,
                      flood_thresholds_df, month_day, today, trends,
                      temp_trends)
    /\ pc' = "engine_return"
    /\ UNCHANGED <<current_df, reference_df, flood_thresholds_df, month_day,
                   today, trends, temp_trends, interpVars, classVars,
                   floodVars,
                   supportVars>>

NextEngine == CalculateLivePercentiles

SpecEngine == InitEngine /\ [][NextEngine]_vars

---------------------------------------------------------------------------
(* Specification of the engine across the percentile bands: one call on one
   reading of s1 *)

\* a curve whose segments give percentiles in steps of 0.025
CurveWide ==
    [c \in StoredCols |->
        CASE c = "p05" -> Some(0) [] c = "p10" -> Some(200)
          [] c = "p25" -> Some(800) [] c = "p50" -> Some(1800)
          [] c = "p75" -> Some(2800) [] c = "p90" -> Some(3400)
          [] c = "p95" -> Some(3600)]

\* discharges at the knots of the curve, next below them and in between
BandFlowVals ==
    {0, 100, 199, 200, 599, 600, 799, 800, 999, 1000, 1800, 2799, 2800,
     3400, 3599, 3600, 4000}

BandReadingVals ==
    [site_no : {"s1"},
     discharge : {NA} \cup {Some(f) : f \in BandFlowVals},
     gage_height : {NA, Some(2)},
     water_temp : {NA}]

InitBands ==
    /\ pc = "engine_call"
    /\ \E rd \in BandReadingVals : current_df = <<rd>>
    /\ reference_df \in
           {<<>>, <<ReferenceRow("s1", "01-15", CurveWide)>>,
            <<ReferenceRow("s1", "01-15", CurveSparse)>>}
    /\ flood_thresholds_df \in {NA, Some(<<FloodRow("s1", 1)>>)}
    /\ month_day = NoneStr
    /\ today = "01-15"
    /\ trends = <<>>
    /\ temp_trends = <<>>
    /\ results = <<>>
    /\ InterpIdle
    /\ ClassifyIdle
    /\ FloodIdle
    /\ SupportIdle

SpecBands == InitBands /\ [][NextEngine]_vars

---------------------------------------------------------------------------
(* calculate_trend (src/src/pipeline_b/trend_detector.py)                  *)
(*                                                                         *)
(* A flow history is a sequence of pairs <<t, f>>: t the time of the       *)
(* reading in ticks of 1 / TicksPerHour hour, f the flow, an integer.      *)
(* With integer flows np.std(flows) < 1e-10 says that all flows are equal  *)
(* and np.median(flows) < 1e-10 that the median is at most 0.  The         *)
(* regression is computed exactly: with x the ticks from the first         *)
(* reading, the least-squares slope of the median-normalised flows is      *)
(*   (100 / median) * (n * Sum(x f) - Sum(x) Sum(f))                       *)
(*                  / (n * Sum(x x) - Sum(x) Sum(x))     per tick.         *)
(***************************************************************************)

\* ticks of 3 minutes
TicksPerHour == 20

RECURSIVE SumSeq(_)
SumSeq(q) == IF q = <<>> THEN 0 ELSE Head(q) + SumSeq(Tail(q))

\* timestamps and flows of a history
Timestamps(h) == [i \in 1..Len(h) |-> h[i][1]]
Flows(h) == [i \in 1..Len(h) |-> h[i][2]]

\* np.std(flows) < 1e-10 on a non-empty array of integers; np.std of an
\* empty array is nan, and nan < 1e-10 is False
StdIsZero(fl) ==
    /\ Len(fl) > 0
    /\ \A i \in 1..Len(fl) : fl[i] = fl[1]

\* the k-th smallest flow
KthSmallest(fl, k) ==
    CHOOSE v \in {fl[i] : i \in 1..Len(fl)} :
        /\ Cardinality({i \in 1..Len(fl) : fl[i] < v}) < k
        /\ Cardinality({i \in 1..Len(fl) : fl[i] <= v}) >= k

\* twice np.median(flows)
Median2(fl) ==
    LET n == Len(fl)
    IN  IF n % 2 = 1 THEN 2 * KthSmallest(fl, (n + 1) \div 2)
        ELSE KthSmallest(fl, n \div 2) + KthSmallest(fl, n \div 2 + 1)

\* hours_from_start, in ticks
TicksFromStart(ts) == [i \in 1..Len(ts) |-> ts[i] - ts[1]]

\* n * Sum(x f) - Sum(x) * Sum(f)
Sxf(x, fl) ==
    Len(x) * SumSeq([i \in 1..Len(x) |-> x[i] * fl[i]])
        - SumSeq(x) * SumSeq(fl)

\* n * Sum(x x) - Sum(x) * Sum(x)
Sxx(x) ==
    Len(x) * SumSeq([i \in 1..Len(x) |-> x[i] * x[i]])
        - SumSeq(x) * SumSeq(x)

\* the slope of np.polyfit(hours_from_start, normalized_flows, 1), percent
\* per hour, a rational of positive denominator
Slope(x, fl) == <<200 * TicksPerHour * Sxf(x, fl), Median2(fl) * Sxx(x)>>

\* faulty variant: the rate per hour stands for the change over the window
TotalChange_rateonly(x, fl, span) == Slope(x, fl)

\* total_change = trend_rate * total_hours
TotalChange(x, fl, span) ==
    <<200 * Sxf(x, fl) * span, Median2(fl) * Sxx(x)>>

\* np.argmax(flows): the first index of the largest flow
PeakIdx(fl) ==
    CHOOSE i \in 1..Len(fl) :
        /\ \A j \in 1..Len(fl) : fl[j] <= fl[i]
        /\ \A j \in 1..(i - 1) : fl[j] < fl[i]

\* faulty variant: the peak is timed from the first reading
TicksSincePeak_frombase(ts, fl) == ts[PeakIdx(fl)] - ts[1]

\* hours_since_peak = now - peak_time, in ticks
TicksSincePeak(ts, fl) == ts[Len(ts)] - ts[PeakIdx(fl)]

\* round(trend_rate, 3): the nearest thousandth, an exact tie going to the
\* even one; the result is a rational over 1000
Round3(q) ==
    LET whole == q[1] \div q[2]
        part == 1000 * (q[1] % q[2])
        fl == part \div q[2]
        rem == part % q[2]
        up == IF 2 * rem < q[2] THEN 0
              ELSE IF 2 * rem > q[2] THEN 1
              ELSE IF fl % 2 = 0 THEN 0 ELSE 1
    IN  <<1000 * whole + fl + up, 1000>>

\* faulty variant: the age of the peak is reported under every label
Classify_peakalways(h, rising, falling) ==
    LET ts == Timestamps(h)
        fl == Flows(h)
        x == TicksFromStart(ts)
        span == x[Len(x)] - x[1]
        total_change == TotalChange(x, fl, span)
        tsp == TicksSincePeak(ts, fl)
        rate == Round3(Slope(x, fl))
        hsp == IF 2 * tsp > TicksPerHour
               THEN Some(Round1(<<tsp, TicksPerHour>>)) ELSE NA
    IN  IF RatLe(Rat(rising), total_change)
        THEN TrendResult("rising", rate, hsp, Len(h))
        ELSE IF RatLe(total_change, Rat(falling))
        THEN TrendResult("falling", rate, hsp, Len(h))
        ELSE TrendResult("stable", rate, hsp, Len(h))

\* faulty variant: the falling test comes first
Classify_fallingfirst(h, rising, falling) ==
    LET ts == Timestamps(h)
        fl == Flows(h)
        x == TicksFromStart(ts)
        span == x[Len(x)] - x[1]
        total_change == TotalChange(x, fl, span)
        tsp == TicksSincePeak(ts, fl)
        rate == Round3(Slope(x, fl))
    IN  IF RatLe(total_change, Rat(falling))
        THEN TrendResult("falling", rate,
                 IF 2 * tsp > TicksPerHour
                 THEN Some(Round1(<<tsp, TicksPerHour>>)) ELSE NA,
                 Len(h))
        ELSE IF RatLe(Rat(rising), total_change)
        THEN TrendResult("rising", rate, NA, Len(h))
        ELSE TrendResult("stable", rate, NA, Len(h))

\* the classification of a history that passed the guards
Classify(h, rising, falling) ==
    LET ts == Timestamps(h)
        fl == Flows(h)
        x == TicksFromStart(ts)
        span == x[Len(x)] - x[1]
        total_change == TotalChange(x, fl, span)
        tsp == TicksSincePeak(ts, fl)
        rate == Round3(Slope(x, fl))
    IN  IF RatLe(Rat(rising), total_change)
        THEN TrendResult("rising", rate, NA, Len(h))
        ELSE IF RatLe(total_change, Rat(falling))
        THEN TrendResult("falling", rate,
                 IF 2 * tsp > TicksPerHour
                 THEN Some(Round1(<<tsp, TicksPerHour>>)) ELSE NA,
                 Len(h))
        ELSE TrendResult("stable", rate, NA, Len(h))

\* faulty variant: identical flows are looked for before the data points
\* are counted
calculate_trend_stdfirst(h, rising, falling, min_points) ==
    LET n == Len(h)
        span == h[n][1] - h[1][1]
    IN  IF StdIsZero(Flows(h)) THEN TrendResult("stable", Rat(0), NA, n)
        ELSE IF n < min_points THEN TrendResult("unknown", Rat(0), NA, n)
        ELSE IF n = 0 THEN TrendRaised("IndexError")
        ELSE IF 10 * span < TicksPerHour
        THEN TrendResult("unknown", Rat(0), NA, n)
        ELSE IF Median2(Flows(h)) <= 0
        THEN TrendResult("unknown", Rat(0), NA, n)
        ELSE Classify(h, rising, falling)

\* faulty variant: the time span is looked at before the identical flows
calculate_trend_spanfirst(h, rising, falling, min_points) ==
    LET n == Len(h)
        span == h[n][1] - h[1][1]
    IN  IF n < min_points THEN TrendResult("unknown", Rat(0), NA, n)
        ELSE IF n = 0 THEN TrendRaised("IndexError")
        ELSE IF 10 * span < TicksPerHour
        THEN TrendResult("unknown", Rat(0), NA, n)
        ELSE IF StdIsZero(Flows(h)) THEN TrendResult("stable", Rat(0), NA, n)
        ELSE IF Median2(Flows(h)) <= 0
        THEN TrendResult("unknown", Rat(0), NA, n)
        ELSE Classify(h, rising, falling)

\* calculate_trend(flow_history, rising_threshold, falling_threshold,
\* min_data_points)
calculate_trend(h, rising, falling, min_points) ==
    LET n == Len(h)
        span == h[n][1] - h[1][1]
    IN  IF n < min_points THEN TrendResult("unknown", Rat(0), NA, n)
        ELSE IF StdIsZero(Flows(h)) THEN TrendResult("stable", Rat(0), NA, n)
        \* base_time = timestamps[0] of an empty list
        ELSE IF n = 0 THEN TrendRaised("IndexError")
        \* total_hours < 0.1
        ELSE IF 10 * span < TicksPerHour
        THEN TrendResult("unknown", Rat(0), NA, n)
        \* median_flow < 1e-10
        ELSE IF Median2(Flows(h)) <= 0
        THEN TrendResult("unknown", Rat(0), NA, n)
        ELSE Classify(h, rising, falling)

\* TrendConfig: the thresholds of a temperature trend, in degrees
temp_rising_threshold == 1
temp_falling_threshold == -1

\* temperatures are held in tenths of a degree
TempScale == 10

\* the slope of the fit on the raw temperatures, degrees per hour
TempSlope(x, tv) == <<TicksPerHour * Sxf(x, tv), TempScale * Sxx(x)>>

\* slope times span, in degrees
TempTotalChange(x, tv, span) == <<Sxf(x, tv) * span, TempScale * Sxx(x)>>

\* the classification of a temperature history that passed the guards
TempClassify(h, rising, falling) ==
    LET ts == Timestamps(h)
        tv == Flows(h)
        x == TicksFromStart(ts)
        span == x[Len(x)] - x[1]
        total_change == TempTotalChange(x, tv, span)
        tsp == TicksSincePeak(ts, tv)
        rate == Round3(TempSlope(x, tv))
    IN  IF RatLe(Rat(rising), total_change)
        THEN TrendResult("rising", rate, NA, Len(h))
        ELSE IF RatLe(total_change, Rat(falling))
        THEN TrendResult("falling", rate,
                 IF 2 * tsp > TicksPerHour
                 THEN Some(Round1(<<tsp, TicksPerHour>>)) ELSE NA,
                 Len(h))
        ELSE TrendResult("stable", rate, NA, Len(h))

\* calculate_temp_trend(temp_history, rising_threshold, falling_threshold,
\* min_data_points): the steps of calculate_trend without the median
\* normalisation
calculate_temp_trend(h, rising, falling, min_points) ==
    LET n == Len(h)
        span == h[n][1] - h[1][1]
    IN  IF n < min_points \/ n = 0 THEN TrendResult("unknown", Rat(0), NA, n)
        ELSE IF StdIsZero(Flows(h)) THEN TrendResult("stable", Rat(0), NA, n)
        ELSE IF 10 * span < TicksPerHour
        THEN TrendResult("unknown", Rat(0), NA, n)
        ELSE TempClassify(h, rising, falling)

---------------------------------------------------------------------------
(* Specification of the trend detector: one call on a drawn history *)

\* reading times, in ticks: 0, 3, 45 and 90 minutes
TickVals == {0, 1, 15, 30}

\* flows
TrendFlowVals == {0, 62, 64, 65, 66}

\* min_data_points: the default and a value that lets every history through
MinDataPointsVals == {0, 4}

\* the times of a history: in time order, as get_readings_for_trends builds
\* them, or, for the short histories, in any order
TimesOf(n) ==
    {ts \in [1..n -> TickVals] :
        \/ n <= MaxAnyOrderLen
        \/ \A i \in 1..(n - 1) : ts[i] <= ts[i + 1]}

InitTrend ==
    /\ pc = "trend_call"
    /\ \E n \in 0..MaxSeriesLen :
           \E ts \in TimesOf(n), fl \in [1..n -> TrendFlowVals] :
               flow_history = [i \in 1..n |-> <<ts[i], fl[i]>>]
    /\ thr_rising = rising_threshold
    /\ thr_falling = falling_threshold
    /\ min_data_points \in MinDataPointsVals
    /\ trend_result = NoTrendResult
    /\ InterpIdle
    /\ ClassifyIdle
    /\ FloodIdle
    /\ EngineIdle
    /\ CacheIdle
    /\ WorkersIdle
    /\ MonitorIdle
    /\ StationsIdle

CalculateTrend ==
    /\ pc = "trend_call"
    /\ trend_result' = calculate_trend(flow_history, thr_rising,
                           thr_falling, min_data_points)
    /\ pc' = "trend_return"
    /\ UNCHANGED <<flow_history, thr_rising, thr_falling, min_data_points,
                   interpVars, classVars,
                   floodVars, engineVars, cacheVars, workerVars, monitorVars,
                   stationVars>>

NextTrend == CalculateTrend

SpecTrend == InitTrend /\ [][NextTrend]_vars

---------------------------------------------------------------------------
(* Specification of the trend detector under the thresholds of its caller:
   one call on a history read every 45 minutes *)

\* the thresholds a caller passes, in percent: the defaults, zero, and
\* pairs in which the rising threshold is not above the falling one
TrendThresholdVals == {-5, 0, 5}

InitThresholds ==
    /\ pc = "trend_call"
    /\ \E fl \in [1..ThresholdSeriesLen -> TrendFlowVals] :
           flow_history = [i \in 1..ThresholdSeriesLen |->
                              <<15 * (i - 1), fl[i]>>]
    /\ thr_rising \in TrendThresholdVals
    /\ thr_falling \in TrendThresholdVals
    /\ min_data_points \in MinDataPointsVals
    /\ trend_result = NoTrendResult
    /\ InterpIdle
    /\ ClassifyIdle
    /\ FloodIdle
    /\ EngineIdle
    /\ CacheIdle
    /\ WorkersIdle
    /\ MonitorIdle
    /\ StationsIdle

SpecThresholds == InitThresholds /\ [][NextTrend]_vars

---------------------------------------------------------------------------
(* Reference loader (src/src/pipeline_b/reference_loader.py) and the S3     *)
(* download it falls back to (src/src/utils/s3_client.py)                  *)
(*                                                                         *)
(* The cache is a function from the cached state codes to their tables; a  *)
(* table is a sequence of reference rows.  The store is the local          *)
(* reference directory, when one is set, and the S3 bucket.                *)
(***************************************************************************)

\* the reference table of a region: one row of its site for the day 01-15
TableOf(r, curve) == <<ReferenceRow(SiteOf[r], "01-15", curve)>>

\* the parquet files of the local reference directory: one for VT
LocalFiles == [r \in {"VT"} |-> TableOf(r, CurveSparse)]

\* what a request to S3 can fail with: a ClientError, which has a response
\* of the service, or an error of the connection, which is a BotoCoreError
\* and not a ClientError
FaultVals == {NoneStr, "ClientError", "EndpointConnectionError"}

\* S3Client.download_reference_stats: the table, None on a ClientError (a
\* missing key is one), any other exception passed on
download_reference_stats(objs, fault, state_code) ==
    IF fault = "EndpointConnectionError" THEN [df |-> NA, raised |-> fault]
    ELSE IF fault = "ClientError" THEN [df |-> NA, raised |-> NoneStr]
    ELSE [df |-> objs[state_code], raised |-> NoneStr]

\* the part of load_reference_data that reads the store: the local file
\* when the directory is set and the file exists, S3 otherwise
FetchFromStore(dir, objs, fault, state_code) ==
    IF dir # NoneStr /\ state_code \in DOMAIN LocalFiles
    THEN [df |-> Some(LocalFiles[state_code]), raised |-> NoneStr]
    ELSE download_reference_stats(objs, fault, state_code)

\* _reference_cache[state_code] = df
CachePut(cache, state_code, table) ==
    [r \in DOMAIN cache \cup {state_code} |->
        IF r = state_code THEN table ELSE cache[r]]

\* the outcome of a call of load_reference_data: the returned df or the
\* raised exception, the cache afterwards, whether the store was read
Loaded(df, raised, cache, fetched) ==
    [df |-> df, raised |-> raised, cache |-> cache, fetched |-> fetched]

\* faulty variant: the cache is filled but never read
load_reference_data_reload(cache, dir, objs, fault, state_code, use_cache) ==
    LET got == FetchFromStore(dir, objs, fault, state_code)
    IN  IF got.raised # NoneStr THEN Loaded(NA, got.raised, cache, TRUE)
        ELSE IF got.df # NA /\ use_cache
        THEN Loaded(got.df, NoneStr,
                 CachePut(cache, state_code, got.df[1]), TRUE)
        ELSE Loaded(got.df, NoneStr, cache, TRUE)

\* faulty variant: a found table is cached whatever use_cache says
load_reference_data_putalways(cache, dir, objs, fault, state_code, use_cache) ==
    IF use_cache /\ state_code \in DOMAIN cache
    THEN Loaded(Some(cache[state_code]), NoneStr, cache, FALSE)
    ELSE LET got == FetchFromStore(dir, objs, fault, state_code)
         IN  IF got.raised # NoneStr THEN Loaded(NA, got.raised, cache, TRUE)
             ELSE IF got.df # NA
             THEN Loaded(got.df, NoneStr,
                      CachePut(cache, state_code, got.df[1]), TRUE)
             ELSE Loaded(got.df, NoneStr, cache, TRUE)

\* faulty variant: a load keeps only its own entry in the cache
load_reference_data_evict(cache, dir, objs, fault, state_code, use_cache) ==
    IF use_cache /\ state_code \in DOMAIN cache
    THEN Loaded(Some(cache[state_code]), NoneStr, cache, FALSE)
    ELSE LET got == FetchFromStore(dir, objs, fault, state_code)
         IN  IF got.raised # NoneStr THEN Loaded(NA, got.raised, cache, TRUE)
             ELSE IF got.df # NA /\ use_cache
             THEN Loaded(got.df, NoneStr,
                      CachePut(<<>>, state_code, got.df[1]), TRUE)
             ELSE Loaded(got.df, NoneStr, cache, TRUE)

\* load_reference_data(state_code, use_cache)
load_reference_data(cache, dir, objs, fault, state_code, use_cache) ==
    IF use_cache /\ state_code \in DOMAIN cache
    THEN Loaded(Some(cache[state_code]), NoneStr, cache, FALSE)
    ELSE LET got == FetchFromStore(dir, objs, fault, state_code)
         IN  IF got.raised # NoneStr THEN Loaded(NA, got.raised, cache, TRUE)
             ELSE IF got.df # NA /\ use_cache
             THEN Loaded(got.df, NoneStr,
                      CachePut(cache, state_code, got.df[1]), TRUE)
             ELSE Loaded(got.df, NoneStr, cache, TRUE)

\* a counter of the region goes up when the event happened
Count(counter, state_code, happened) ==
    IF happened THEN [counter EXCEPT ![state_code] = @ + 1] ELSE counter

\* the call put an entry into the cache
Inserted(before, out, state_code) ==
    /\ out.fetched
    /\ state_code \in DOMAIN out.cache
    /\ state_code \notin DOMAIN before

---------------------------------------------------------------------------
(* Specification of the loader: calls one after the other, as the monitor *)
(* makes them, while the store changes                                     *)

\* the buckets: each region with or without an object
BucketVals ==
    {[r \in Regions |-> IF r \in have THEN Some(TableOf(r, CurveFull)) ELSE NA] :
        have \in SUBSET Regions}

InitCache ==
    /\ pc = "loader"
    /\ reference_cache = <<>>
    /\ local_reference_dir = NoneStr
    /\ s3_objects \in BucketVals
    /\ s3_fault = NoneStr
    /\ fetches = [r \in Regions |-> 0]
    /\ inserts = [r \in Regions |-> 0]
    /\ last_call = NoCall
    /\ InterpIdle
    /\ ClassifyIdle
    /\ FloodIdle
    /\ EngineIdle
    /\ TrendIdle
    /\ WorkersIdle
    /\ MonitorIdle
    /\ StationsIdle

OtherThanCache ==
    <<pc, interpVars, classVars, floodVars, engineVars, trendVars, workerVars,
      monitorVars, stationVars>>

LoadReferenceData(state_code, use_cache) ==
    LET out == load_reference_data(reference_cache, local_reference_dir,
                   s3_objects, s3_fault, state_code, use_cache)
    IN  /\ out.fetched => fetches[state_code] < MaxFetches
        /\ reference_cache' = out.cache
        /\ fetches' = Count(fetches, state_code, out.fetched)
        /\ inserts' = Count(inserts, state_code,
                          Inserted(reference_cache, out, state_code))
        /\ last_call' = Call("load_reference_data", state_code, use_cache,
                             out.df, out.raised, out.fetched)
        /\ UNCHANGED <<local_reference_dir, s3_objects, s3_fault,
                       OtherThanCache>>

\* clear_cache()
ClearCache ==
    /\ reference_cache' = <<>>
    /\ last_call' = Call("clear_cache", NoneStr, FALSE, NA, NoneStr, FALSE)
    /\ UNCHANGED <<local_reference_dir, s3_objects, s3_fault, fetches,
                   inserts, OtherThanCache>>

\* set_local_reference_dir(path)
SetLocalReferenceDir ==
    /\ local_reference_dir = NoneStr
    /\ local_reference_dir' = "reference"
    /\ last_call' = Call("set_local_reference_dir", NoneStr, FALSE, NA,
                         NoneStr, FALSE)
    /\ UNCHANGED <<reference_cache, s3_objects, s3_fault, fetches, inserts,
                   OtherThanCache>>

\* S3Client.upload_reference_stats(df, state_code), run by the weekly
\* pipeline: the region gets its object
UploadReferenceStats(state_code) ==
    /\ s3_fault = NoneStr
    /\ s3_objects[state_code] = NA
    /\ s3_objects' = [s3_objects EXCEPT
                         ![state_code] = Some(TableOf(state_code, CurveFull))]
    /\ last_call' = Call("upload_reference_stats", state_code, FALSE, NA,
                         NoneStr, FALSE)
    /\ UNCHANGED <<reference_cache, local_reference_dir, s3_fault, fetches,
                   inserts, OtherThanCache>>

\* the S3 service starts or stops failing
S3Fault(fault) ==
    /\ fault # s3_fault
    /\ s3_fault' = fault
    /\ last_call' = Call("s3_fault", NoneStr, FALSE, NA, NoneStr, FALSE)
    /\ UNCHANGED <<reference_cache, local_reference_dir, s3_objects, fetches,
                   inserts, OtherThanCache>>

NextCache ==
    \/ \E state_code \in Regions, use_cache \in BOOLEAN :
           LoadReferenceData(state_code, use_cache)
    \/ ClearCache
    \/ SetLocalReferenceDir
    \/ \E state_code \in Regions : UploadReferenceStats(state_code)
    \/ \E fault \in FaultVals : S3Fault(fault)

SpecCache == InitCache /\ [][NextCache]_vars

---------------------------------------------------------------------------
(* Specification of concurrent callers: every worker calls                 *)
(* load_reference_data(state_code) once, use_cache left at its default;    *)
(* the steps of a call are its accesses to the cache and to the store,     *)
(* and the steps of the workers interleave.  The function takes no lock.   *)

InitWorkers ==
    /\ pc = "workers"
    /\ reference_cache = <<>>
    /\ local_reference_dir \in {NoneStr, "reference"}
    /\ s3_objects \in BucketVals
    /\ s3_fault \in FaultVals
    /\ fetches = [r \in Regions |-> 0]
    /\ inserts = [r \in Regions |-> 0]
    /\ last_call = NoCall
    /\ WorkersIdle
    /\ InterpIdle
    /\ ClassifyIdle
    /\ FloodIdle
    /\ EngineIdle
    /\ TrendIdle
    /\ MonitorIdle
    /\ StationsIdle

OtherThanWorkers ==
    <<pc, interpVars, classVars, floodVars, engineVars, trendVars,
      monitorVars, stationVars, local_reference_dir, s3_objects, s3_fault,
      last_call>>

\* a worker enters load_reference_data(state_code)
WorkerCall(w, state_code) ==
    /\ wpc[w] = "idle"
    /\ wpc' = [wpc EXCEPT ![w] = "check"]
    /\ w_state_code' = [w_state_code EXCEPT ![w] = state_code]
    /\ UNCHANGED <<w_df, reference_cache, fetches, inserts, OtherThanWorkers>>

\* if use_cache and state_code in _reference_cache: return the entry
WorkerCheck(w) ==
    /\ wpc[w] = "check"
    /\ IF w_state_code[w] \in DOMAIN reference_cache
       THEN /\ w_df' = [w_df EXCEPT
                           ![w] = Some(reference_cache[w_state_code[w]])]
            /\ wpc' = [wpc EXCEPT ![w] = "returned"]
       ELSE /\ w_df' = w_df
            /\ wpc' = [wpc EXCEPT ![w] = "fetch"]
    /\ UNCHANGED <<w_state_code, reference_cache, fetches, inserts,
                   OtherThanWorkers>>

\* the read of the local file or of S3
WorkerFetch(w) ==
    LET got == FetchFromStore(local_reference_dir, s3_objects, s3_fault,
                   w_state_code[w])
    IN  /\ wpc[w] = "fetch"
        /\ fetches' = Count(fetches, w_state_code[w], TRUE)
        /\ w_df' = [w_df EXCEPT ![w] = got.df]
        /\ wpc' = [wpc EXCEPT
                      ![w] = IF got.raised # NoneStr THEN "raised"
                             ELSE "store"]
        /\ UNCHANGED <<w_state_code, reference_cache, inserts,
                       OtherThanWorkers>>

\* if df is not None and use_cache: _reference_cache[state_code] = df
WorkerStore(w) ==
    /\ wpc[w] = "store"
    /\ IF w_df[w] # NA
       THEN /\ reference_cache' = CachePut(reference_cache, w_state_code[w],
                                      w_df[w][1])
            /\ inserts' = Count(inserts, w_state_code[w], TRUE)
       ELSE UNCHANGED <<reference_cache, inserts>>
    /\ wpc' = [wpc EXCEPT ![w] = "returned"]
    /\ UNCHANGED <<w_state_code, w_df, fetches, OtherThanWorkers>>

NextWorkers ==
    \E w \in 1..NumWorkers :
        \/ \E state_code \in Regions : WorkerCall(w, state_code)
        \/ WorkerCheck(w)
        \/ WorkerFetch(w)
        \/ WorkerStore(w)

SpecWorkers == InitWorkers /\ [][NextWorkers]_vars

---------------------------------------------------------------------------
(* run_live_monitor (src/src/pipeline_b/percentile_calc.py)                *)
(*                                                                         *)
(* The call is modelled from the point where the flood thresholds and the  *)
(* current conditions have been fetched: flood_thresholds_df and latest_df *)
(* are what these fetches gave, latest_df None standing for the API call   *)
(* that failed.  upload_to_s3 is False.                                    *)
(***************************************************************************)

\* get_readings_for_trends(current_df): the flow history of site s1
HistoricalReadings ==
    [s \in {"s1"} |-> <<<<0, 62>>, <<15, 64>>, <<15, 65>>, <<30, 66>>>>]

\* the trends loop: a site whose calculate_trend raises gets no trend
MonitorTrends(historical_readings) ==
    LET result(s) == calculate_trend(historical_readings[s], rising_threshold,
                         falling_threshold, 4)
    IN  [s \in {x \in DOMAIN historical_readings : result(x).raised = NoneStr}
            |-> result(s)]

\* the temperature trends loop: a site whose calculate_temp_trend raises
\* gets no trend
MonitorTempTrends_asflow(temp_readings_of) ==
    LET result(s) == calculate_trend(temp_readings_of[s],
                         temp_rising_threshold, temp_falling_threshold, 4)
    IN  [s \in {x \in DOMAIN temp_readings_of : result(x).raised = NoneStr}
            |-> result(s)]

MonitorTempTrends(temp_readings_of) ==
    LET result(s) == calculate_temp_trend(temp_readings_of[s],
                         temp_rising_threshold, temp_falling_threshold, 4)
    IN  [s \in {x \in DOMAIN temp_readings_of : result(x).raised = NoneStr}
            |-> result(s)]

\* faulty variant: the readings are not filtered by the sites of the table
StateLatest_nofilter(latest, ref) == latest

\* latest_df[latest_df["site_no"].isin(state_site_ids)]
StateLatest(latest, ref) ==
    SelectSeq(latest,
        LAMBDA rd : rd.site_no \in {ref[i].site_id : i \in 1..Len(ref)})

\* results["state"] = state
WithState(res, state) ==
    [i \in 1..Len(res) |-> [state |-> state] @@ res[i]]

\* the loop over the states: st is the loader's state, the records so far
\* and the exception that ended the loop, inp what the loop reads
RECURSIVE StateLoop(_, _, _)
StateLoop(todo, st, inp) ==
    IF todo = <<>> \/ st.raised # NoneStr THEN st
    ELSE LET state == Head(todo)
             out == load_reference_data(st.cache, inp.dir, inp.objs,
                        inp.fault, state, TRUE)
             loader == [st EXCEPT
                 !.cache = out.cache,
                 !.fetches = Count(st.fetches, state, out.fetched),
                 !.inserts = Count(st.inserts, state,
                                 Inserted(st.cache, out, state)),
                 !.last_call = Call("load_reference_data", state, TRUE,
                                    out.df, out.raised, out.fetched)]
         IN  IF out.raised # NoneStr
             THEN [loader EXCEPT !.raised = out.raised]
             ELSE IF out.df = NA THEN StateLoop(Tail(todo), loader, inp)
             ELSE LET state_latest_df == StateLatest(inp.latest, out.df[1])
                      res == calculate_live_percentiles(state_latest_df,
                                 out.df[1], inp.flood_df, NoneStr, inp.today,
                                 inp.trends, inp.temp_trends)
                  IN  StateLoop(Tail(todo),
                          [loader EXCEPT
                              !.all_results = @ \o WithState(res, state)],
                          inp)

\* run_live_monitor(states, upload_to_s3=False)
\* loader is the state of the reference loader and of the store
run_live_monitor(sts, latest, temps, flood_df, now, loader) ==
    LET st0 == [cache |-> loader.cache, fetches |-> loader.fetches,
                inserts |-> loader.inserts, last_call |-> loader.last_call,
                all_results |-> <<>>, raised |-> NoneStr]
    IN  IF latest = NA THEN st0
        ELSE StateLoop(sts, st0,
                 [latest |-> latest[1], flood_df |-> flood_df, today |-> now,
                  trends |-> MonitorTrends(HistoricalReadings),
                  temp_trends |-> MonitorTempTrends(temps),
                  dir |-> loader.dir, objs |-> loader.objs,
                  fault |-> loader.fault])

---------------------------------------------------------------------------
(* Specification of the monitor: one run on a drawn state of the loader *)

\* a reading of a site with a flow and a gage height
LatestOf(site) ==
    [site_no |-> site, discharge |-> Some(2), gage_height |-> Some(2),
     water_temp |-> NA]

\* the API call failed, or gave readings of one or of both sites
LatestVals ==
    {NA, Some(<<LatestOf("s1")>>), Some(<<LatestOf("s1"), LatestOf("s2")>>)}

\* water temperatures of a site, in tenths of a degree: a rise of 0.6
\* degrees, a rise and a fall of 1.5 degrees, a single reading
TempHistoryVals ==
    {<<<<0, 100>>, <<10, 102>>, <<20, 104>>, <<30, 106>>>>,
     <<<<0, 100>>, <<10, 105>>, <<20, 110>>, <<30, 115>>>>,
     <<<<0, 115>>, <<10, 110>>, <<20, 105>>, <<30, 100>>>>,
     <<<<0, 100>>>>}

\* what get_temp_readings_for_trends gives: no site, or the history of s1
TempReadingVals ==
    {<<>>} \cup {[s \in {"s1"} |-> h] : h \in TempHistoryVals}

\* the caches an earlier run can leave behind
CacheVals ==
    {[r \in have |-> TableOf(r, CurveFull)] : have \in SUBSET Regions}

InitMonitor ==
    /\ pc = "monitor_call"
    /\ states \in SeqsUpTo(Regions, MaxStates)
    /\ latest_df \in LatestVals
    /\ temp_readings \in TempReadingVals
    /\ monitor_result = NoMonitorResult
    /\ reference_cache \in CacheVals
    /\ local_reference_dir \in {NoneStr, "reference"}
    /\ s3_objects \in BucketVals
    /\ s3_fault \in FaultVals
    /\ fetches = [r \in Regions |-> 0]
    /\ inserts = [r \in Regions |-> 0]
    /\ last_call = NoCall
    /\ flood_thresholds_df \in {NA, Some(<<FloodRow("s1", 1)>>)}
    /\ current_df = <<>>
    /\ reference_df = <<>>
    /\ month_day = NoneStr
    /\ today = "01-15"
    /\ trends = <<>>
    /\ temp_trends = <<>>
    /\ results = <<>>
    /\ InterpIdle
    /\ ClassifyIdle
    /\ FloodIdle
    /\ TrendIdle
    /\ WorkersIdle
    /\ StationsIdle

RunLiveMonitor ==
    LET st == run_live_monitor(states, latest_df, temp_readings,
                  flood_thresholds_df, today,
                  [cache |-> reference_cache, dir |-> local_reference_dir,
                   objs |-> s3_objects, fault |-> s3_fault,
                   fetches |-> fetches, inserts |-> inserts,
                   last_call |-> last_call])
    IN  /\ pc = "monitor_call"
        /\ reference_cache' = st.cache
        /\ fetches' = st.fetches
        /\ inserts' = st.inserts
        /\ last_call' = st.last_call
        /\ monitor_result' =
               IF st.raised # NoneStr THEN MonitorResult(st.raised, <<>>)
               ELSE MonitorResult(NoneStr, st.all_results)
        /\ pc' = "monitor_return"
        /\ UNCHANGED <<states, latest_df, temp_readings, local_reference_dir,
                       s3_objects,
                       s3_fault, interpVars, classVars, floodVars, engineVars,
                       trendVars, workerVars, stationVars>>

NextMonitor == RunLiveMonitor

SpecMonitor == InitMonitor /\ [][NextMonitor]_vars

---------------------------------------------------------------------------
(* Specification of the monitor on stations of the border: one run where a
   site can be in the tables of both regions or of none *)

\* the readings of the monitor, and readings of s1 and of a site that no
\* reference table has
BorderLatestVals ==
    LatestVals \cup {Some(<<LatestOf("s1"), LatestOf("s3")>>)}

\* the table of NH when the border site s1 is in it too
BorderTable ==
    <<ReferenceRow("s2", "01-15", CurveFull),
      ReferenceRow("s1", "01-15", CurveFull)>>

\* the buckets of the loader, and those whose NH object holds the border
\* site
BorderBucketVals ==
    BucketVals \cup
        {[r \in Regions |->
             IF r = "NH" THEN Some(BorderTable)
             ELSE IF vt THEN Some(TableOf(r, CurveFull)) ELSE NA] :
         vt \in BOOLEAN}

\* no flood table, a row of s1, rows of s1 and of s3
BorderFloodTables ==
    {NA, Some(<<FloodRow("s1", 1)>>),
     Some(<<FloodRow("s1", 1), FloodRow("s3", 1)>>)}

InitBorder ==
    /\ pc = "monitor_call"
    /\ states \in SeqsUpTo(Regions, MaxStates)
    /\ latest_df \in BorderLatestVals
    /\ temp_readings = <<>>
    /\ monitor_result = NoMonitorResult
    /\ reference_cache \in CacheVals
    /\ local_reference_dir \in {NoneStr, "reference"}
    /\ s3_objects \in BorderBucketVals
    /\ s3_fault \in FaultVals
    /\ fetches = [r \in Regions |-> 0]
    /\ inserts = [r \in Regions |-> 0]
    /\ last_call = NoCall
    /\ flood_thresholds_df \in BorderFloodTables
    /\ current_df = <<>>
    /\ reference_df = <<>>
    /\ month_day = NoneStr
    /\ today = "01-15"
    /\ trends = <<>>
    /\ temp_trends = <<>>
    /\ results = <<>>
    /\ InterpIdle
    /\ ClassifyIdle
    /\ FloodIdle
    /\ TrendIdle
    /\ WorkersIdle
    /\ StationsIdle

SpecBorder == InitBorder /\ [][NextMonitor]_vars

---------------------------------------------------------------------------
(* Station pages (src/src/utils/dynamodb_client.py)                        *)
(*                                                                         *)
(* The index StationSyncScheduleIndex is a sequence of station items in    *)
(* the order of the index; an item is TRUE when its status is active.  The *)
(* key of an item is its place in that order and its station id.  A query  *)
(* evaluates the items after its start key, up to its Limit or fewer (the  *)
(* service also ends a query at 1 MB), gives the active ones among them,   *)
(* and gives a LastEvaluatedKey unless it reached the end of the index.    *)
(* The readings of a station do not bear on which stations are returned    *)
(* and are left out.                                                       *)
(***************************************************************************)

\* _encode_cursor(cursor_data): base64 of the JSON of the key
encode_cursor(cursor_data) == <<"base64", cursor_data>>

\* _decode_cursor(cursor): the key, None for what is not base64 of JSON
decode_cursor(c) == IF c[1] = "base64" THEN Some(c[2]) ELSE NA

\* limit = max(1, min(500, limit))
ClampLimit(limit) ==
    IF limit < 1 THEN 1 ELSE IF limit > 500 THEN 500 ELSE limit

\* batch_size = max(limit * 3, 100)
BatchSize(limit) == IF limit * 3 > 100 THEN limit * 3 ELSE 100

\* the place a query starts after
StartPlace(key) == IF key = NA THEN 0 ELSE key[1]

\* response["Items"]: the active items among the n evaluated ones, in order
QueryItems(index, start, n) ==
    SelectSeq([i \in 1..n |-> start + i], LAMBDA k : index[k])

\* the first n elements of a sequence, all of them when it is shorter
Take(q, n) == IF Len(q) <= n THEN q ELSE SubSeq(q, 1, n)

\* the while condition of the page
PageLoops ==
    /\ Len(active_stations) < ClampLimit(limit_per_page)
    /\ has_more_data

---------------------------------------------------------------------------
(* Specification of the station fetch: fetch_all_stations_from_dynamodb on *)
(* a drawn index and page limit                                            *)

InitStations ==
    /\ pc = "stations_call"
    /\ \E n \in 0..MaxIndexLen : station_index \in [1..n -> BOOLEAN]
    /\ limit_per_page \in 0..MaxLimit
    /\ all_stations = <<>>
    /\ cursor = NA
    /\ active_stations = <<>>
    /\ exclusive_start_key = NA
    /\ has_more_data = TRUE
    /\ last_station_key = NA
    /\ query_failed = FALSE
    /\ InterpIdle
    /\ ClassifyIdle
    /\ FloodIdle
    /\ EngineIdle
    /\ TrendIdle
    /\ CacheIdle
    /\ WorkersIdle
    /\ MonitorIdle

OtherThanStations ==
    <<interpVars, classVars, floodVars, engineVars, trendVars, cacheVars,
      workerVars, monitorVars>>

\* fetch_all_stations_from_dynamodb calls get_stations_with_readings_cursor,
\* which decodes the cursor and starts an empty page
GetPage ==
    /\ pc = "stations_call"
    /\ exclusive_start_key' =
           IF cursor = NA THEN NA ELSE decode_cursor(cursor[1])
    /\ active_stations' = <<>>
    /\ last_station_key' = NA
    /\ has_more_data' = TRUE
    /\ pc' = "page_loop"
    /\ UNCHANGED <<station_index, limit_per_page, all_stations, cursor,
                   query_failed, OtherThanStations>>

\* one round of the while loop: a query that evaluates n items, the active
\* ones taken while the page has room
QueryStations(n, key_at_end) ==
    LET start == StartPlace(exclusive_start_key)
        items == QueryItems(station_index, start, n)
        room == ClampLimit(limit_per_page) - Len(active_stations)
        taken == Take(items, room)
        last_evaluated_key ==
            IF start + n < Len(station_index) \/ (key_at_end /\ n > 0)
            THEN Some(start + n) ELSE NA
    IN  /\ pc = "page_loop"
        /\ PageLoops
        /\ n <= BatchSize(ClampLimit(limit_per_page))
        /\ start + n <= Len(station_index)
        /\ n = 0 => start = Len(station_index)
        /\ active_stations' = active_stations \o taken
        /\ last_station_key' =
               IF taken = <<>> THEN last_station_key
               ELSE Some(taken[Len(taken)])
        /\ exclusive_start_key' = last_evaluated_key
        /\ has_more_data' = (last_evaluated_key # NA)
        /\ UNCHANGED <<pc, station_index, limit_per_page, all_stations,
                       cursor, query_failed, OtherThanStations>>

\* table.query raises a ClientError: the page ends with what it has
QueryClientError ==
    /\ pc = "page_loop"
    /\ PageLoops
    /\ query_failed' = TRUE
    /\ pc' = "page_break"
    /\ UNCHANGED <<station_index, limit_per_page, all_stations, cursor,
                   active_stations, exclusive_start_key, has_more_data,
                   last_station_key, OtherThanStations>>

\* table.query raises another exception: fetch_all_stations_from_dynamodb
\* catches it and returns the pages it has
QueryRaises ==
    /\ pc = "page_loop"
    /\ PageLoops
    /\ query_failed' = TRUE
    /\ pc' = "stations_return"
    /\ UNCHANGED <<station_index, limit_per_page, all_stations, cursor,
                   active_stations, exclusive_start_key, has_more_data,
                   last_station_key, OtherThanStations>>

\* the page returns its stations and next_cursor; the caller appends the
\* stations and goes on with the cursor, or ends when it is None
PageReturn ==
    LET next_cursor ==
            IF has_more_data /\ last_station_key # NA
            THEN Some(encode_cursor(last_station_key[1])) ELSE NA
    IN  /\ \/ pc = "page_loop" /\ ~PageLoops
           \/ pc = "page_break"
        /\ all_stations' = all_stations \o active_stations
        /\ cursor' = next_cursor
        /\ pc' = IF next_cursor = NA THEN "stations_return"
                 ELSE "stations_call"
        /\ UNCHANGED <<station_index, limit_per_page, active_stations,
                       exclusive_start_key, has_more_data, last_station_key,
                       query_failed, OtherThanStations>>

NextStations ==
    \/ GetPage
    \/ \E n \in 0..MaxIndexLen, key_at_end \in BOOLEAN :
           QueryStations(n, key_at_end)
    \/ QueryClientError
    \/ QueryRaises
    \/ PageReturn

SpecStations == InitStations /\ [][NextStations]_vars

---------------------------------------------------------------------------
(* Properties of interpolate_percentile *)

\* the stored columns of a row that are present and not NaN
PresentCols(row) == {c \in StoredCols : c \in DOMAIN row /\ notna(row[c])}

\* the percentile a stored column holds: "p05" is 5
ColPct(c) == CHOOSE p \in 0..100 : c = PCol(p)

PresentPcts(row) == {ColPct(c) : c \in PresentCols(row)}

ThresholdOf(row, p) == row[PCol(p)][1]

PresentVals(row) == {row[c][1] : c \in PresentCols(row)}

SetMin(S) == CHOOSE m \in S : \A x \in S : m <= x

SetMax(S) == CHOOSE m \in S : \A x \in S : x <= m

Returned == pc = "interp_return"

Interpolable == Cardinality(PresentCols(percentile_thresholds)) >= 2

\* C1: interpolate_percentile returns None, without raising, exactly when
\* fewer than 2 of the columns p05..p95 are present and non-NaN in the row;
\* with 2 or more it returns a number.
C1_InsufficientData ==
    Returned =>
        /\ ~Interpolable => interp_result = NA
        /\ Interpolable => /\ interp_result # NA
                           /\ Len(interp_result) = 2
                           /\ interp_result[2] > 0

C1_Witness ==
    /\ Returned
    /\ Cardinality(PresentCols(percentile_thresholds)) = 1
    /\ interp_result = NA

\* C2 as claimed: a flow at or below the smallest present threshold returns
\* the smallest present percentile, and a flow at or above the largest
\* present threshold returns the largest present percentile.
C2_Clamping_Claimed ==
    (Returned /\ Interpolable) =>
        LET vals == PresentVals(percentile_thresholds)
            pcts == PresentPcts(percentile_thresholds)
        IN  /\ current_flow <= SetMin(vals)
                => RatEq(interp_result, Rat(SetMin(pcts)))
            /\ current_flow >= SetMax(vals)
                => RatEq(interp_result, Rat(SetMax(pcts)))

\* C2 (amended): a flow at or below the threshold of the smallest present
\* percentile returns that percentile; any other flow at or above the
\* threshold of the largest present percentile returns that percentile.
\* On a non-decreasing row these thresholds are the smallest and the largest
\* present values, and the two cases overlap only on a row whose present
\* thresholds are all equal, where the lower clamp decides.
C2_Clamping ==
    (Returned /\ Interpolable) =>
        LET row == percentile_thresholds
            lo == SetMin(PresentPcts(row))
            hi == SetMax(PresentPcts(row))
        IN  /\ ThresholdOf(row, lo) = SetMin(PresentVals(row))
            /\ ThresholdOf(row, hi) = SetMax(PresentVals(row))
            /\ current_flow <= ThresholdOf(row, lo)
                => RatEq(interp_result, Rat(lo))
            /\ (current_flow > ThresholdOf(row, lo)
                  /\ current_flow >= ThresholdOf(row, hi))
                => RatEq(interp_result, Rat(hi))

C2_Witness ==
    /\ Returned
    /\ Interpolable
    /\ Cardinality(PresentVals(percentile_thresholds)) >= 2
    /\ current_flow >= SetMax(PresentVals(percentile_thresholds))
    /\ RatEq(interp_result, Rat(SetMax(PresentPcts(percentile_thresholds))))

\* C3: on a fixed row with at least 2 present entries the result is
\* monotone in the flow: every flow at or below the one just interpolated
\* has a result at or below the returned one, and every flow at or above it
\* a result at or above.
C3_Monotone ==
    (Returned /\ Interpolable) =>
        \A v \in FlowVals :
            /\ v <= current_flow =>
                 RatLe(interpolate_percentile(v, percentile_thresholds),
                       interp_result)
            /\ v >= current_flow =>
                 RatLe(interp_result,
                       interpolate_percentile(v, percentile_thresholds))

\* the returned value lies strictly between two knots and a smaller flow,
\* also strictly between knots, has a strictly smaller result
C3_Witness ==
    /\ Returned
    /\ Interpolable
    /\ current_flow \notin PresentVals(percentile_thresholds)
    /\ \E v \in FlowVals :
         /\ v < current_flow
         /\ v \notin PresentVals(percentile_thresholds)
         /\ v > SetMin(PresentVals(percentile_thresholds))
         /\ RatLt(interpolate_percentile(v, percentile_thresholds),
                  interp_result)

\* C4 as claimed: interpolating at the threshold of any present percentile
\* p returns exactly p, also when present percentiles share that threshold.
C4_RoundTrip_Claimed ==
    (Returned /\ Interpolable) =>
        \A p \in PresentPcts(percentile_thresholds) :
            ThresholdOf(percentile_thresholds, p) = current_flow
                => RatEq(interp_result, Rat(p))

\* the present percentiles whose threshold is the value v
Sharing(row, v) == {p \in PresentPcts(row) : ThresholdOf(row, p) = v}

\* C4 (amended): interpolating at the threshold of a present percentile p
\* returns exactly p when no other present percentile has the same
\* threshold; when several share it, the result is the smallest present
\* percentile if the value is the smallest present threshold, and otherwise
\* the largest of the percentiles sharing the value.
C4_RoundTrip ==
    (Returned /\ Interpolable) =>
        LET row == percentile_thresholds
            grp == Sharing(row, current_flow)
        IN  grp # {} =>
              /\ Cardinality(grp) = 1 =>
                    \A p \in grp : RatEq(interp_result, Rat(p))
              /\ current_flow = SetMin(PresentVals(row))
                    => RatEq(interp_result, Rat(SetMin(PresentPcts(row))))
              /\ current_flow # SetMin(PresentVals(row))
                    => RatEq(interp_result, Rat(SetMax(grp)))

\* a knot strictly inside the curve, shared with no other percentile
C4_Witness ==
    /\ Returned
    /\ Interpolable
    /\ Cardinality(Sharing(percentile_thresholds, current_flow)) = 1
    /\ current_flow > SetMin(PresentVals(percentile_thresholds))
    /\ current_flow < SetMax(PresentVals(percentile_thresholds))
    /\ \E p \in Sharing(percentile_thresholds, current_flow) :
           RatEq(interp_result, Rat(p))

---------------------------------------------------------------------------
(* Properties of the classifiers *)

FlowStatusReturned == pc = "flow_status_return"

DroughtStatusReturned == pc = "drought_status_return"

FloodStatusReturned == pc = "flood_status_return"

\* lo <= percentile < hi
PctIn(lo, hi) == RatLe(Rat(lo), percentile) /\ RatLt(percentile, Rat(hi))

\* C5: for every percentile of 0..100 get_flow_status returns the one label
\* of its band: below 5, [5, 25), [25, 75), [75, 95), 95 and above.
C5_FlowStatusBands ==
    FlowStatusReturned =>
        /\ flow_status \in {"Much Below Normal", "Below Normal", "Normal",
                            "Above Normal", "Much Above Normal"}
        /\ flow_status = "Much Below Normal" <=> RatLt(percentile, Rat(5))
        /\ flow_status = "Below Normal" <=> PctIn(5, 25)
        /\ flow_status = "Normal" <=> PctIn(25, 75)
        /\ flow_status = "Above Normal" <=> PctIn(75, 95)
        /\ flow_status = "Much Above Normal" <=> RatLe(Rat(95), percentile)

C5_Witness ==
    /\ FlowStatusReturned
    /\ PctIn(10, 25)
    /\ ~RatEq(percentile, Rat(10))
    /\ flow_status = "Below Normal"

\* C6: with the default cutoffs get_drought_status gives every percentile
\* of 0..100 the most severe tier whose cutoff it is below: D4 below 2, D3
\* in [2, 5), D2 in [5, 10), D1 in [10, 20), D0 in [20, 30), None from 30.
C6_DroughtTiers ==
    DroughtStatusReturned =>
        /\ drought_status = "D4 - Exceptional Drought"
              <=> RatLt(percentile, Rat(2))
        /\ drought_status = "D3 - Extreme Drought" <=> PctIn(2, 5)
        /\ drought_status = "D2 - Severe Drought" <=> PctIn(5, 10)
        /\ drought_status = "D1 - Moderate Drought" <=> PctIn(10, 20)
        /\ drought_status = "D0 - Abnormally Dry" <=> PctIn(20, 30)
        /\ drought_status = NoneStr <=> RatLe(Rat(30), percentile)

C6_Witness ==
    /\ DroughtStatusReturned
    /\ PctIn(2, 5)
    /\ drought_status = "D3 - Extreme Drought"

\* C7 as claimed: percentile 1 is D4, 7 is D3, 25 is D0, 50 is None.
C7_DroughtExamples_Claimed ==
    DroughtStatusReturned =>
        /\ RatEq(percentile, Rat(1))
              => drought_status = "D4 - Exceptional Drought"
        /\ RatEq(percentile, Rat(7))
              => drought_status = "D3 - Extreme Drought"
        /\ RatEq(percentile, Rat(25)) => drought_status = "D0 - Abnormally Dry"
        /\ RatEq(percentile, Rat(50)) => drought_status = NoneStr

\* C7 (amended): percentile 1 is D4, 7 is D2 (7 is not below the D3 cutoff
\* 5 and is below the D2 cutoff 10), 25 is D0, 50 is None.
C7_DroughtExamples ==
    DroughtStatusReturned =>
        /\ RatEq(percentile, Rat(1))
              => drought_status = "D4 - Exceptional Drought"
        /\ RatEq(percentile, Rat(7))
              => drought_status = "D2 - Severe Drought"
        /\ RatEq(percentile, Rat(25)) => drought_status = "D0 - Abnormally Dry"
        /\ RatEq(percentile, Rat(50)) => drought_status = NoneStr

C7_Witness ==
    /\ DroughtStatusReturned
    /\ RatEq(percentile, Rat(7))
    /\ drought_status = "D2 - Severe Drought"

\* the stage of a row, None/NaN when the key is absent
Stage(key) == SeriesGet(flood_thresholds[1], key)

AllStagesAscending ==
    /\ flood_thresholds # NA
    /\ \A k \in StageKeys : notna(Stage(k))
    /\ Stage("action_stage")[1] <= Stage("flood_stage")[1]
    /\ Stage("flood_stage")[1] <= Stage("moderate_flood_stage")[1]
    /\ Stage("moderate_flood_stage")[1] <= Stage("major_flood_stage")[1]

\* C8: with all four stages present and ascending and a non-null gage
\* height, the status is the tier of the band the gage height lies in:
\* Major from the major stage, Moderate in [moderate, major), Minor in
\* [minor, moderate), Action in [action, minor), None below the action
\* stage; with 8/10/14/18 ft: 20 ft Major, 15 Moderate, 11 Minor, 8.5
\* Action, 5 None.
C8_FloodPrecedence ==
    (FloodStatusReturned /\ notna(gage_height) /\ AllStagesAscending) =>
        LET g == gage_height[1]
            action == Stage("action_stage")[1]
            minor == Stage("flood_stage")[1]
            moderate == Stage("moderate_flood_stage")[1]
            major == Stage("major_flood_stage")[1]
        IN  /\ flood_status = "Major Flood" <=> g >= major
            /\ flood_status = "Moderate Flood" <=> (moderate <= g /\ g < major)
            /\ flood_status = "Minor Flood" <=> (minor <= g /\ g < moderate)
            /\ flood_status = "Action Stage" <=> (action <= g /\ g < minor)
            /\ flood_status = NoneStr <=> g < action
            /\ flood_thresholds = Some(mock_thresholds) =>
                  /\ g = 40 => flood_status = "Major Flood"
                  /\ g = 30 => flood_status = "Moderate Flood"
                  /\ g = 22 => flood_status = "Minor Flood"
                  /\ g = 17 => flood_status = "Action Stage"
                  /\ g = 10 => flood_status = NoneStr

C8_Witness ==
    /\ FloodStatusReturned
    /\ flood_thresholds = Some(mock_thresholds)
    /\ gage_height = Some(17)
    /\ flood_status = "Action Stage"

Severity(key) ==
    CASE key = "action_stage" -> 1
      [] key = "flood_stage" -> 2
      [] key = "moderate_flood_stage" -> 3
      [] key = "major_flood_stage" -> 4

StageLabel(key) ==
    CASE key = "action_stage" -> "Action Stage"
      [] key = "flood_stage" -> "Minor Flood"
      [] key = "moderate_flood_stage" -> "Moderate Flood"
      [] key = "major_flood_stage" -> "Major Flood"

\* the present stages of the row that the gage height reaches
ReachedStages ==
    IF gage_height = NA \/ flood_thresholds = NA THEN {}
    ELSE {k \in StageKeys : /\ notna(Stage(k))
                            /\ Stage(k)[1] <= gage_height[1]}

\* C9: get_flood_status returns None for a null gage height, an absent or
\* empty row, or a gage height below every present stage; otherwise, for
\* any subset of absent stages, the most severe present stage reached.
C9_FloodMissingData ==
    FloodStatusReturned =>
        /\ gage_height = NA => flood_status = NoneStr
        /\ flood_thresholds = NA => flood_status = NoneStr
        /\ (flood_thresholds # NA /\ DOMAIN flood_thresholds[1] = {})
              => flood_status = NoneStr
        /\ ReachedStages = {} => flood_status = NoneStr
        /\ ReachedStages # {} =>
              \E k \in ReachedStages :
                  /\ \A o \in ReachedStages : Severity(o) <= Severity(k)
                  /\ flood_status = StageLabel(k)

\* the major stage is absent and the moderate stage is reached
C9_Witness ==
    /\ FloodStatusReturned
    /\ flood_thresholds # NA
    /\ "major_flood_stage" \notin DOMAIN flood_thresholds[1]
    /\ "action_stage" \in ReachedStages
    /\ "moderate_flood_stage" \in ReachedStages
    /\ flood_status = "Moderate Flood"

---------------------------------------------------------------------------
(* Properties of calculate_live_percentiles *)

EngineReturned == pc = "engine_return"

\* the day key the batch is assessed for
AssessedDay == IF month_day = NoneStr THEN today ELSE month_day

\* the first reference row of the reading's site and the assessed day
\* exists and has at least 2 populated thresholds, and the reading has a
\* flow
ExpectPercentile(rd) ==
    /\ notna(rd.discharge)
    /\ \E i \in 1..Len(reference_df) :
         /\ reference_df[i].site_id = rd.site_no
         /\ reference_df[i].month_day = AssessedDay
         /\ \A k \in 1..(i - 1) :
               ~(/\ reference_df[k].site_id = rd.site_no
                 /\ reference_df[k].month_day = AssessedDay)
         /\ Cardinality(PresentCols(reference_df[i])) >= 2

\* the reading has a gage height that reaches a populated stage of the
\* last flood row of its site
ExpectFlood(rd) ==
    /\ notna(rd.gage_height)
    /\ flood_thresholds_df # NA
    /\ rd.site_no # ""
    /\ LET rows == flood_thresholds_df[1]
       IN  \E i \in 1..Len(rows) :
             /\ rows[i].site_id = rd.site_no
             /\ \A k \in (i + 1)..Len(rows) : rows[k].site_id # rd.site_no
             /\ \E key \in StageKeys :
                   /\ notna(rows[i][key])
                   /\ rows[i][key][1] <= rd.gage_height[1]

ExpectRecord(rd) ==
    /\ rd.site_no # NoneStr
    /\ ExpectPercentile(rd) \/ ExpectFlood(rd)

\* C10: the returned records are, in input order, exactly the readings
\* that get a percentile or a flood status; a reading with neither is not
\* in the output, whatever its raw values and trend, and every returned
\* record has a non-null percentile or a non-null flood_status.
C10_OutputFilter ==
    EngineReturned =>
        LET kept == SelectSeq(current_df, ExpectRecord)
        IN  /\ Len(results) = Len(kept)
            /\ \A k \in 1..Len(results) :
                  /\ results[k].percentile # NA
                        \/ results[k].flood_status # NoneStr
                  /\ results[k].site_id = kept[k].site_no
                  /\ results[k].flow = kept[k].discharge
                  /\ results[k].gage_height = kept[k].gage_height
                  /\ results[k].percentile # NA <=> ExpectPercentile(kept[k])
                  /\ results[k].flood_status # NoneStr
                        <=> ExpectFlood(kept[k])

\* two readings of a site with a trend: the one with only a flow and no
\* reference row is dropped, the one in flood is returned
C10_Witness ==
    /\ EngineReturned
    /\ Len(current_df) = 2
    /\ Len(results) = 1
    /\ "s1" \in DOMAIN trends
    /\ \A i \in 1..2 : current_df[i].site_no = "s1"
    /\ \E i \in 1..2 : /\ notna(current_df[i].discharge)
                       /\ ~ExpectRecord(current_df[i])
    /\ results[1].percentile = NA
    /\ results[1].flood_status = "Action Stage"
    /\ results[1].trend = "rising"

\* no reference row of the reading's site and the assessed day
NoReferenceMatch(rd) ==
    \A i \in 1..Len(reference_df) :
        ~(/\ reference_df[i].site_id = rd.site_no
          /\ reference_df[i].month_day = AssessedDay)

\* no flood row of the reading's site
NoFloodThresholds(rd) ==
    \/ flood_thresholds_df = NA
    \/ \A i \in 1..Len(flood_thresholds_df[1]) :
          flood_thresholds_df[1][i].site_id # rd.site_no

FloodLabels == {"Action Stage", "Minor Flood", "Moderate Flood", "Major Flood"}

\* C11: a reading whose gage height reaches a flood stage of its site but
\* that gets no percentile (no flow, no reference row of the site and day,
\* or fewer than 2 populated thresholds) is returned with null percentile,
\* flow_status and drought_status and a flood tier; a reading with no
\* reference match and no flood thresholds is not returned.
C11_FloodIndependent ==
    EngineReturned =>
        LET kept == SelectSeq(current_df, ExpectRecord)
            flooded == SelectSeq(current_df,
                          LAMBDA rd : rd.site_no # NoneStr /\ ExpectFlood(rd))
        IN  /\ Len(results) = Len(kept)
            /\ \A i \in 1..Len(flooded) :
                  \E k \in 1..Len(results) :
                      /\ results[k].site_id = flooded[i].site_no
                      /\ results[k].gage_height = flooded[i].gage_height
                      /\ results[k].flow = flooded[i].discharge
                      /\ results[k].flood_status \in FloodLabels
            /\ \A k \in 1..Len(results) :
                  ~ExpectPercentile(kept[k]) =>
                      /\ results[k].percentile = NA
                      /\ results[k].flow_status = NoneStr
                      /\ results[k].drought_status = NoneStr
                      /\ results[k].flood_status \in FloodLabels
            /\ \A i \in 1..Len(current_df) :
                  (NoReferenceMatch(current_df[i])
                      /\ NoFloodThresholds(current_df[i])) =>
                      \A k \in 1..Len(results) :
                          ~(/\ results[k].site_id = current_df[i].site_no
                            /\ results[k].flow = current_df[i].discharge
                            /\ results[k].gage_height
                                  = current_df[i].gage_height)

\* a reading with a flow, a reference row with a single populated
\* threshold, and a gage height in flood: returned with only a flood tier
C11_Witness ==
    /\ EngineReturned
    /\ Len(current_df) = 1
    /\ notna(current_df[1].discharge)
    /\ ~NoReferenceMatch(current_df[1])
    /\ ~ExpectPercentile(current_df[1])
    /\ Len(results) = 1
    /\ results[1].percentile = NA
    /\ results[1].flood_status = "Action Stage"

---------------------------------------------------------------------------
(* Properties of the trend detector (SpecTrend) *)

TrendReturned == pc = "trend_return"

HistLen == Len(flow_history)

\* the history is in time order
TimeSorted ==
    \A i \in 1..(HistLen - 1) : flow_history[i][1] <= flow_history[i + 1][1]

\* ticks from the first to the last reading
HistSpan == flow_history[HistLen][1] - flow_history[1][1]

AllFlowsEqual ==
    \A i \in 1..HistLen : flow_history[i][2] = flow_history[1][2]

\* the result of a degenerate path
Degenerate(label) == TrendResult(label, Rat(0), NA, HistLen)

\* C12: a history with fewer than min_data_points readings is unknown with
\* rate 0 and no hours_since_peak, identical flows included.
C12_TooShort ==
    (TrendReturned /\ HistLen < min_data_points) =>
        trend_result = Degenerate("unknown")

\* three identical flows under the default min_data_points of 4
C12_Witness ==
    /\ TrendReturned
    /\ min_data_points = 4
    /\ HistLen = 3
    /\ AllFlowsEqual
    /\ trend_result.trend = "unknown"
    /\ trend_result.trend_rate = Rat(0)
    /\ trend_result.hours_since_peak = NA

\* C13: a history of at least min_data_points identical flows is stable with
\* rate 0 and no hours_since_peak, whatever its times and its flow.
C13_FlatStable ==
    (TrendReturned /\ HistLen >= 1 /\ HistLen >= min_data_points
        /\ AllFlowsEqual) =>
        trend_result = Degenerate("stable")

\* four readings of flow 0 at one time: neither the time span nor the
\* median is looked at
C13_Witness ==
    /\ TrendReturned
    /\ min_data_points = 4
    /\ HistLen = 4
    /\ AllFlowsEqual
    /\ flow_history[1][2] = 0
    /\ HistSpan = 0
    /\ trend_result.trend = "stable"
    /\ trend_result.trend_rate = Rat(0)

\* the change over the window of the least-squares line through the
\* median-normalised flows, in percent: rate times span
FittedChange ==
    LET x == [i \in 1..HistLen |-> flow_history[i][1] - flow_history[1][1]]
        fl == [i \in 1..HistLen |-> flow_history[i][2]]
    IN  <<200 * Sxf(x, fl) * HistSpan, Median2(fl) * Sxx(x)>>

\* at least 4 readings in time order, strictly increasing flows, more than
\* an hour from first to last, the last flow more than 5% above the first
StrictlyRising ==
    /\ min_data_points = 4
    /\ HistLen >= 4
    /\ TimeSorted
    /\ \A i \in 1..(HistLen - 1) : flow_history[i][2] < flow_history[i + 1][2]
    /\ HistSpan > TicksPerHour
    /\ flow_history[1][2] > 0
    /\ 100 * (flow_history[HistLen][2] - flow_history[1][2])
           > 5 * flow_history[1][2]

\* C14 as stated: every such history is rising.
C14_Rising_Claimed ==
    (TrendReturned /\ StrictlyRising) => trend_result.trend = "rising"

\* C14: a strictly increasing history of at least 4 readings spanning more
\* than an hour and rising by more than 5% in total is rising when the
\* fitted change over the window is at least 5%.
C14_Rising ==
    (TrendReturned /\ StrictlyRising /\ RatLe(Rat(5), FittedChange)) =>
        /\ trend_result.trend = "rising"
        /\ trend_result.hours_since_peak = NA

\* 62, 64, 65, 66 at 0, 45, 45 and 90 minutes
C14_Witness ==
    /\ TrendReturned
    /\ StrictlyRising
    /\ RatLe(Rat(5), FittedChange)
    /\ trend_result.trend = "rising"

\* at least 4 readings in time order that rise to the largest flow, the
\* third reading from the end, and then fall twice, the largest flow more
\* than half an hour before the last reading
RiseThenFall ==
    /\ min_data_points = 4
    /\ HistLen >= 4
    /\ TimeSorted
    /\ \A i \in 1..(HistLen - 3) : flow_history[i][2] < flow_history[i + 1][2]
    /\ \A i \in (HistLen - 2)..(HistLen - 1) :
           flow_history[i][2] > flow_history[i + 1][2]
    /\ 2 * (flow_history[HistLen][1] - flow_history[HistLen - 2][1])
           > TicksPerHour

\* the time from the largest flow to the last reading, to a tenth of an hour
PeakToLast ==
    Some(Round1(<<flow_history[HistLen][1] - flow_history[HistLen - 2][1],
                  TicksPerHour>>))

\* C15 as stated: every such history is falling, hours_since_peak the time
\* from the largest flow to the last reading.
C15_FallingPeak_Claimed ==
    (TrendReturned /\ RiseThenFall) =>
        /\ trend_result.trend = "falling"
        /\ trend_result.hours_since_peak = PeakToLast

\* C15: a rise-then-fall history whose last 3 readings strictly decrease
\* from the largest flow is falling when the fitted change over the window
\* is at most -5%, and then hours_since_peak is the time from the largest
\* flow to the last reading, to a tenth of an hour, when over half an hour.
C15_FallingPeak ==
    (TrendReturned /\ RiseThenFall /\ RatLe(FittedChange, Rat(-5))) =>
        /\ trend_result.trend = "falling"
        /\ trend_result.hours_since_peak = PeakToLast

\* 65, 66, 64, 62 at 0, 3, 45 and 90 minutes: the peak is 87 minutes old
C15_Witness ==
    /\ TrendReturned
    /\ RiseThenFall
    /\ trend_result.trend = "falling"
    /\ flow_history[HistLen][1] - flow_history[HistLen - 2][1] = 29
    /\ trend_result.hours_since_peak = Some(<<14, 10>>)

\* the history takes the path of the fit: enough readings, not all equal,
\* six minutes or more from first to last, a positive median
FitPath ==
    /\ HistLen >= 1
    /\ HistLen >= min_data_points
    /\ ~AllFlowsEqual
    /\ 10 * HistSpan >= TicksPerHour
    /\ Median2([i \in 1..HistLen |-> flow_history[i][2]]) > 0

MaxSamples ==
    {i \in 1..HistLen : \A j \in 1..HistLen :
        flow_history[j][2] <= flow_history[i][2]}

\* C24: hours_since_peak is set only in a falling result whose largest flow
\* was read more than half an hour before the last reading; rising, stable
\* and unknown results have none.
C24_PeakOnlyWhenFalling ==
    (TrendReturned /\ trend_result.raised = NoneStr
        /\ trend_result.hours_since_peak # NA) =>
        /\ trend_result.trend = "falling"
        /\ \E i \in MaxSamples :
               2 * (flow_history[HistLen][1] - flow_history[i][1])
                   > TicksPerHour

\* a falling result with hours_since_peak set
C24_Witness ==
    /\ TrendReturned
    /\ trend_result.raised = NoneStr
    /\ trend_result.trend = "falling"
    /\ trend_result.hours_since_peak # NA
    /\ \A i \in MaxSamples :
           2 * (flow_history[HistLen][1] - flow_history[i][1]) > TicksPerHour

\* ticks from the latest reading of the largest flow to the last reading
TicksSinceLatestPeak ==
    LET latest == CHOOSE i \in MaxSamples :
                      \A j \in MaxSamples :
                          flow_history[j][1] <= flow_history[i][1]
    IN  flow_history[HistLen][1] - flow_history[latest][1]

\* C25 as stated: in a falling result of a history in time order,
\* hours_since_peak is the time from the latest reading of the largest flow
\* to the last reading, when over half an hour, and is not set otherwise.
C25_LatestPeak ==
    (TrendReturned /\ trend_result.raised = NoneStr /\ TimeSorted
        /\ trend_result.trend = "falling") =>
        trend_result.hours_since_peak =
            IF 2 * TicksSinceLatestPeak > TicksPerHour
            THEN Some(Round1(<<TicksSinceLatestPeak, TicksPerHour>>))
            ELSE NA

\* C16 as stated: calculate_trend ends with no exception on every history
\* and every min_data_points.
C16_NeverRaises == trend_result.raised = NoneStr

---------------------------------------------------------------------------
(* Properties of the reference loader (SpecCache, SpecWorkers) *)

\* the step is a call load_reference_data(r, use_cache=True)
CachedLoadOf(r) ==
    /\ last_call'.op = "load_reference_data"
    /\ last_call'.state_code = r
    /\ last_call'.use_cache

\* C17: once a call with use_cache on has cached a region, every later such
\* call for the region, as long as the cache is not cleared, returns the
\* cached table and does not read the store; a call for a region that is
\* not cached reads the store.
C17_ReadThrough ==
    [][\A r \in Regions :
          CachedLoadOf(r) =>
              IF r \in DOMAIN reference_cache
              THEN /\ ~last_call'.fetched
                   /\ last_call'.df = Some(reference_cache[r])
                   /\ UNCHANGED <<reference_cache, fetches, inserts>>
              ELSE /\ last_call'.fetched
                   /\ fetches'[r] = fetches[r] + 1]_vars

\* a call answered from the cache while the bucket is failing and the store
\* has been read once for the region
C17_Witness ==
    \E r \in Regions :
        /\ last_call.op = "load_reference_data"
        /\ last_call.state_code = r
        /\ last_call.use_cache
        /\ ~last_call.fetched
        /\ last_call.df = Some(reference_cache[r])
        /\ fetches[r] = 1
        /\ s3_fault = "EndpointConnectionError"

\* C18 as stated: with data in the store for a region, concurrent first
\* calls for it read the store at most once.
C18_SingleFlight ==
    \A r \in Regions :
        FetchFromStore(local_reference_dir, s3_objects, s3_fault, r).df # NA
            => fetches[r] <= 1

C26_CacheFrame ==
    [][last_call'.op = "load_reference_data" =>
          LET r == last_call'.state_code
          IN  /\ \A q \in DOMAIN reference_cache :
                     /\ q \in DOMAIN reference_cache'
                     /\ reference_cache'[q] = reference_cache[q]
              /\ DOMAIN reference_cache' \subseteq DOMAIN reference_cache \cup {r}
              /\ reference_cache' # reference_cache =>
                     /\ last_call'.use_cache
                     /\ last_call'.df # NA
                     /\ reference_cache'[r] = last_call'.df[1]
              /\ ~last_call'.use_cache =>
                     /\ last_call'.fetched
                     /\ reference_cache' = reference_cache
              /\ last_call'.df = NA =>
                     /\ last_call'.fetched
                     /\ reference_cache' = reference_cache]_vars

\* a call with use_cache off that found the table of a region that is not
\* cached, while the other region is
C26_Witness ==
    /\ last_call.op = "load_reference_data"
    /\ ~last_call.use_cache
    /\ last_call.fetched
    /\ last_call.df # NA
    /\ last_call.state_code \notin DOMAIN reference_cache
    /\ reference_cache # <<>>

---------------------------------------------------------------------------
(* Properties of the engine across the percentile bands (SpecBands) *)

\* C27: in every record the percentile is set iff the flow status is, and
\* the drought status is set only if the percentile is.
C27_SetTogether ==
    EngineReturned =>
        \A k \in 1..Len(results) :
            /\ results[k].percentile # NA <=> results[k].flow_status # NoneStr
            /\ results[k].drought_status # NoneStr =>
                   results[k].percentile # NA

\* a record of a flood status alone, of a reading whose flow found no
\* percentile
C27_Witness ==
    /\ EngineReturned
    /\ Len(results) = 1
    /\ current_df[1].discharge # NA
    /\ results[1].percentile = NA
    /\ results[1].flood_status # NoneStr
    /\ results[1].flow_status = NoneStr
    /\ results[1].drought_status = NoneStr

\* the interpolated percentile of the reading, before it is rounded
BandPercentile ==
    interpolate_percentile(current_df[1].discharge[1], reference_df[1])

\* C28 as stated: the statuses of a record are those of its own percentile
\* field, the value rounded to one decimal.
C28_StatusOfRounded ==
    EngineReturned =>
        \A k \in 1..Len(results) :
            results[k].percentile # NA =>
                /\ results[k].flow_status =
                       get_flow_status(results[k].percentile)
                /\ results[k].drought_status =
                       get_drought_status(results[k].percentile)

\* the cutoffs of the two classifications
StatusCutoffs ==
    {5, 10, 25, 75, 90, 95, d0_threshold, d1_threshold, d2_threshold,
     d3_threshold, d4_threshold}

\* rounding lifted the percentile onto a cutoff it is below
LiftedOntoCutoff(p, rounded) ==
    \E c \in StatusCutoffs : RatEq(rounded, Rat(c)) /\ RatLt(p, Rat(c))

\* C28: the statuses of a record are those of the interpolated percentile
\* before rounding, the percentile field is that value rounded to one
\* decimal, and the statuses are those of the percentile field too unless
\* rounding lifted the value onto a cutoff it is below.
C28_StatusOfUnrounded ==
    EngineReturned =>
        \A k \in 1..Len(results) :
            results[k].percentile # NA =>
                /\ results[k].percentile = Round1(BandPercentile)
                /\ results[k].flow_status = get_flow_status(BandPercentile)
                /\ results[k].drought_status =
                       get_drought_status(BandPercentile)
                /\ ~LiftedOntoCutoff(BandPercentile, results[k].percentile) =>
                       /\ results[k].flow_status =
                              get_flow_status(results[k].percentile)
                       /\ results[k].drought_status =
                              get_drought_status(results[k].percentile)

\* discharge 199 between p05 = 0 and p10 = 200: percentile 9.975, recorded
\* as 10.0 with the drought tier of 9.975
C28_Witness ==
    /\ EngineReturned
    /\ Len(results) = 1
    /\ current_df[1].discharge = Some(199)
    /\ results[1].percentile = <<100, 10>>
    /\ results[1].drought_status = "D2 - Severe Drought"
    /\ results[1].flow_status = "Below Normal"

DroughtD1toD4 ==
    {"D1 - Moderate Drought", "D2 - Severe Drought", "D3 - Extreme Drought",
     "D4 - Exceptional Drought"}

\* the two labels do not contradict each other
LabelsAgree(flow, drought) ==
    /\ drought \in DroughtD1toD4 =>
           flow \in {"Below Normal", "Much Below Normal"}
    /\ flow = "Much Below Normal" <=>
           drought \in {"D3 - Extreme Drought", "D4 - Exceptional Drought"}
    /\ flow \in {"Above Normal", "Much Above Normal"} => drought = NoneStr

\* C29: in every record the tiers D1 to D4 go with Below Normal or Much
\* Below Normal, Much Below Normal goes with exactly the tiers D3 and D4,
\* and Above Normal and Much Above Normal go with no drought status; the
\* same holds of the two classifiers at every percentile of 0..100, those
\* below 5, which no record has, included.
C29_StatusesAgree ==
    /\ EngineReturned =>
           \A k \in 1..Len(results) :
               LabelsAgree(results[k].flow_status, results[k].drought_status)
    /\ \A q \in PercentileVals :
           LabelsAgree(get_flow_status(q), get_drought_status(q))

\* a record of the tier D2 with Below Normal
C29_Witness ==
    /\ EngineReturned
    /\ Len(results) = 1
    /\ results[1].drought_status = "D2 - Severe Drought"
    /\ results[1].flow_status = "Below Normal"
    /\ current_df[1].discharge = Some(100)

---------------------------------------------------------------------------
(* Properties of the monitor (SpecMonitor) *)

MonitorReturned == pc = "monitor_return"

\* the state codes the run was given
Requested == {states[i] : i \in 1..Len(states)}

\* the region's table is at hand: cached before the run, or in the store
\* and the store answering
Loadable(r) ==
    \/ r \in DOMAIN reference_cache
    \/ FetchFromStore(local_reference_dir, s3_objects, s3_fault, r).df # NA

\* the table of a region whose table is at hand
TableAtHand(r) ==
    IF r \in DOMAIN reference_cache THEN reference_cache[r]
    ELSE FetchFromStore(local_reference_dir, s3_objects, s3_fault, r).df[1]

\* the records the engine gives for the readings of the region's sites
RecordsOf(r) ==
    WithState(
        calculate_live_percentiles(StateLatest(latest_df[1], TableAtHand(r)),
            TableAtHand(r), flood_thresholds_df, NoneStr, today,
            MonitorTrends(HistoricalReadings),
            MonitorTempTrends(temp_readings)),
        r)

\* C20 as stated: the run ends with no exception whatever the loads of its
\* regions do, and returns the records of every requested region whose
\* table can be loaded.
C20_RegionFailureSkipped ==
    MonitorReturned =>
        /\ monitor_result.raised = NoneStr
        /\ \A r \in Requested :
              (latest_df # NA /\ Loadable(r)) =>
                  \A i \in 1..Len(RecordsOf(r)) :
                      \E k \in 1..Len(monitor_result.results) :
                          monitor_result.results[k] = RecordsOf(r)[i]

\* the change of a temperature history over its window, in degrees: the
\* least-squares slope of the raw readings times the span
RawDegreeChange(h) ==
    LET x == TicksFromStart(Timestamps(h))
    IN  <<Sxf(x, Flows(h)) * (x[Len(x)] - x[1]), TempScale * Sxx(x)>>

\* the label of a history of several distinct readings over six minutes or more
RawDegreeLabel(h) ==
    IF Len(h) < 4 THEN "unknown"
    ELSE IF RatLe(Rat(1), RawDegreeChange(h)) THEN "rising"
    ELSE IF RatLe(RawDegreeChange(h), Rat(-1)) THEN "falling"
    ELSE "stable"

SitesOf(table) == {table[i].site_id : i \in 1..Len(table)}

\* how often the run was given the state code
TimesRequested(r) == Cardinality({i \in 1..Len(states) : states[i] = r})

\* how often the record is in the output
TimesReturned(rec) ==
    Cardinality({k \in 1..Len(monitor_result.results) :
                    monitor_result.results[k] = rec})

\* C30: in a run that returns its records, every record carries a
\* requested state whose loaded table has the record's site; a reading of a
\* site that no loaded table of a requested state has gives no record; and
\* a reading gives the engine's record once for each request of each state
\* whose loaded table has its site.
C30_AssessedInOwnState ==
    (MonitorReturned /\ monitor_result.raised = NoneStr) =>
        /\ \A k \in 1..Len(monitor_result.results) :
               LET rec == monitor_result.results[k]
               IN  /\ rec.state \in Requested
                   /\ Loadable(rec.state)
                   /\ rec.site_id \in SitesOf(TableAtHand(rec.state))
        /\ latest_df # NA =>
               \A i \in 1..Len(latest_df[1]) :
                   LET site == latest_df[1][i].site_no
                   IN  (\A r \in Requested :
                            Loadable(r) => site \notin SitesOf(TableAtHand(r)))
                       => \A k \in 1..Len(monitor_result.results) :
                              monitor_result.results[k].site_id # site
        /\ latest_df # NA =>
               \A r \in Requested :
                   Loadable(r) =>
                       \A i \in 1..Len(RecordsOf(r)) :
                           TimesReturned(RecordsOf(r)[i]) = TimesRequested(r)

\* VT and NH are requested, s1 is in the tables of both and has a record
\* of each, and s3, whose gage height reaches its action stage, is in no
\* table and has no record
C30_Witness ==
    /\ MonitorReturned
    /\ monitor_result.raised = NoneStr
    /\ states = <<"VT", "NH">>
    /\ latest_df = Some(<<LatestOf("s1"), LatestOf("s3")>>)
    /\ flood_thresholds_df = Some(<<FloodRow("s1", 1), FloodRow("s3", 1)>>)
    /\ \E k \in 1..Len(monitor_result.results) :
           /\ monitor_result.results[k].site_id = "s1"
           /\ monitor_result.results[k].state = "VT"
    /\ \E k \in 1..Len(monitor_result.results) :
           /\ monitor_result.results[k].site_id = "s1"
           /\ monitor_result.results[k].state = "NH"
    /\ Len(monitor_result.results) = 2

---------------------------------------------------------------------------
(* Properties of the station fetch (SpecStations) *)

\* the active stations of the index, in order
ActiveStations ==
    QueryItems(station_index, 0, Len(station_index))

\* C21 as stated: when no query fails, the pages followed to the end hold
\* every active station exactly once.
C21_AllStations ==
    (pc = "stations_return" /\ ~query_failed) =>
        all_stations = ActiveStations

====
